---- MODULE Spec2Model ----
(***************************************************************************)
(* Model of backend/data_sources/vci.py: the VCIClient market-data cache.  *)
(* Process-wide state (the class attributes), the lifecycle guards, the    *)
(* two poll loops, the Socket.IO listener and the read accessors.          *)
(*                                                                         *)
(* Python values are tagged records: None, numbers, strings, lists and     *)
(* dicts.  A dict's content is a function from its keys to tagged values.  *)
(* Clock values are kept relative to the current instant, in whole         *)
(* seconds: indices_age is time.time() - _indices_last_update.             *)
(***************************************************************************)
EXTENDS Integers, Sequences, FiniteSets, TLC

\* ------------------------------------------------------------------------
\* Python values
\* ------------------------------------------------------------------------
None == [t |-> "none"]
Num(n) == [t |-> "num", v |-> n]
Str(s) == [t |-> "str", v |-> s]
List(q) == [t |-> "list", v |-> q]
Dict(d) == [t |-> "dict", v |-> d]

\* d.get(k) on the content d of a dict
Get(d, k) == IF k \in DOMAIN d THEN d[k] ELSE None

\* bool(v)
Truthy(v) ==
    CASE v.t = "none" -> FALSE
      [] v.t = "num" -> v.v # 0
      [] v.t = "str" -> v.v # ""
      [] v.t = "list" -> v.v # <<>>
      [] v.t = "dict" -> DOMAIN v.v # {}

\* a or b or ... : the first truthy operand, else the last one
RECURSIVE OrChain(_)
OrChain(q) ==
    IF Len(q) = 1 THEN q[1]
    ELSE IF Truthy(q[1]) THEN q[1] ELSE OrChain(Tail(q))

\* x = d.get(k1); if x is None: x = d.get(k2); ...
RECURSIVE FirstNotNone(_, _)
FirstNotNone(d, keys) ==
    IF Len(keys) = 1 THEN Get(d, keys[1])
    ELSE IF Get(d, keys[1]) # None THEN Get(d, keys[1])
    ELSE FirstNotNone(d, Tail(keys))

\* str.upper() on the strings that occur as symbols
Upper(s) ==
    CASE s = "vnindex" -> "VNINDEX"
      [] s = "VnIndex" -> "VNINDEX"
      [] s = "vn30" -> "VN30"
      [] s = "HNXIndex" -> "HNXINDEX"
      [] s = "hnxindex" -> "HNXINDEX"
      [] s = "hnx30" -> "HNX30"
      [] s = "HNXUpcomIndex" -> "HNXUPCOMINDEX"
      [] s = "foobar" -> "FOOBAR"
      [] s = "FooBar" -> "FOOBAR"
      [] s = "fpt" -> "FPT"
      [] s = "vnm" -> "VNM"
      [] s = "shs" -> "SHS"
      [] OTHER -> s

\* str(v): a string is itself; the text of a number, list or dict starts with a
\* digit, a sign or a bracket
PyStr(v) ==
    CASE v.t = "str" -> v.v
      [] v.t = "num" -> "0123"
      [] v.t = "none" -> "None"
      [] v.t = "list" -> "[...]"
      [] v.t = "dict" -> "{...}"

\* float(v): ok with the number, or the exception (ValueError / TypeError)
ParseFloat(v) ==
    CASE v.t = "num" -> [ok |-> TRUE, val |-> v.v]
      [] v.t = "str" /\ v.v = "0" -> [ok |-> TRUE, val |-> 0]
      [] v.t = "str" /\ v.v = "78" -> [ok |-> TRUE, val |-> 78]
      [] v.t = "str" /\ v.v = "79" -> [ok |-> TRUE, val |-> 79]
      [] v.t = "str" /\ v.v = "80" -> [ok |-> TRUE, val |-> 80]
      [] v.t = "str" /\ v.v = "1200" -> [ok |-> TRUE, val |-> 1200]
      [] v.t = "str" /\ v.v = "1205" -> [ok |-> TRUE, val |-> 1205]
      [] OTHER -> [ok |-> FALSE, val |-> 0]

\* ------------------------------------------------------------------------
\* Class constants
\* ------------------------------------------------------------------------
INDEX_SYMBOLS == <<"VNINDEX", "VN30", "HNXIndex", "HNX30", "HNXUpcomIndex">>
_HISTORY_SIZE == 30

\* allowed = {s.upper() for s in cls.INDEX_SYMBOLS}
allowed == {Upper(INDEX_SYMBOLS[i]) : i \in 1..Len(INDEX_SYMBOLS)}

\* ------------------------------------------------------------------------
\* _normalize_index_item: a normalized dict (content), or None
\* ------------------------------------------------------------------------
\* try: float(raw) if raw is not None else 0.0 / except: 0.0
FloatOrZero(raw) ==
    IF raw = None THEN 0
    ELSE IF ParseFloat(raw).ok THEN ParseFloat(raw).val ELSE 0

item_symbol(d) ==
    OrChain(<<Get(d, "symbol"), Get(d, "Symbol"), Get(d, "s"), Get(d, "index"),
              Get(d, "Index"), Get(d, "code"), Get(d, "Code")>>)

\* the keys _normalize_index_item sets in its copy of the record
NormalizedKeys == {"symbol", "price", "refPrice"}

\* the normalization without the allow-list test
normalize_any_symbol(item) ==
    IF item.t # "dict" THEN None
    ELSE LET d == item.v
             symbol == item_symbol(d)
             price_raw == FirstNotNone(d, <<"price", "Price", "c", "Index">>)
             ref_raw == FirstNotNone(d, <<"refPrice", "RefPrice", "ref", "PrevIndex">>)
         IN IF ~Truthy(symbol) THEN None
            ELSE Dict([k \in DOMAIN d \cup NormalizedKeys |->
                         CASE k = "symbol" -> Str(Upper(PyStr(symbol)))
                           [] k = "price" -> Num(FloatOrZero(price_raw))
                           [] k = "refPrice" -> Num(FloatOrZero(ref_raw))
                           [] OTHER -> d[k]])

_normalize_index_item(item) ==
    IF item.t # "dict" THEN None
    ELSE LET d == item.v
             symbol == item_symbol(d)
             symbol_u == Upper(PyStr(symbol))
             price_raw == FirstNotNone(d, <<"price", "Price", "c", "Index">>)
             ref_raw == FirstNotNone(d, <<"refPrice", "RefPrice", "ref", "PrevIndex">>)
         IN IF ~Truthy(symbol) THEN None
            ELSE IF symbol_u \notin allowed THEN None
            ELSE Dict([k \in DOMAIN d \cup NormalizedKeys |->
                         CASE k = "symbol" -> Str(symbol_u)
                           [] k = "price" -> Num(FloatOrZero(price_raw))
                           [] k = "refPrice" -> Num(FloatOrZero(ref_raw))
                           [] OTHER -> d[k]])

\* ------------------------------------------------------------------------
\* _extract_index_items_from_payload
\* ------------------------------------------------------------------------
NestKeys == <<"data", "Data", "payload", "Payload", "items", "Items", "result", "Result">>

\* collect(node): the candidates appended, in traversal order
RECURSIVE collect(_)
RECURSIVE collect_list(_)
RECURSIVE collect_keys(_, _)
collect_list(q) ==
    IF q = <<>> THEN <<>> ELSE collect(Head(q)) \o collect_list(Tail(q))

collect_keys(d, keys) ==
    IF keys = <<>> THEN <<>>
    ELSE (IF Head(keys) \in DOMAIN d THEN collect(d[Head(keys)]) ELSE <<>>)
         \o collect_keys(d, Tail(keys))

collect(node) ==
    IF node.t = "list" THEN collect_list(node.v)
    ELSE IF node.t = "dict"
    THEN (IF Truthy(_normalize_index_item(node))
          THEN <<_normalize_index_item(node)>> ELSE <<>>)
         \o collect_keys(node.v, NestKeys)
    ELSE <<>>

\* by_symbol[...] = item for each candidate; list(by_symbol.values()): one entry
\* per key in order of first insertion, holding the value stored last
symbol_key(it) == Upper(PyStr(Get(it.v, "symbol")))

\* the de-duplication that keeps the occurrence seen first
RECURSIVE by_symbol_first(_)
by_symbol_first(cands) ==
    IF cands = <<>> THEN <<>>
    ELSE LET k == symbol_key(Head(cands))
             same == SelectSeq(cands, LAMBDA c : symbol_key(c) = k)
             rest == SelectSeq(cands, LAMBDA c : symbol_key(c) # k)
         IN <<same[1]>> \o by_symbol_first(rest)

RECURSIVE by_symbol_values(_)
by_symbol_values(cands) ==
    IF cands = <<>> THEN <<>>
    ELSE LET k == symbol_key(Head(cands))
             same == SelectSeq(cands, LAMBDA c : symbol_key(c) = k)
             rest == SelectSeq(cands, LAMBDA c : symbol_key(c) # k)
         IN <<same[Len(same)]>> \o by_symbol_values(rest)

_extract_index_items_from_payload(payload) == by_symbol_values(collect(payload))

\* ------------------------------------------------------------------------
\* Bounds of the model
\* ------------------------------------------------------------------------
NCallers == 2
MaxRestFetches == 2
MaxPushMsgs == 2
MaxBulkCycles == 2
MaxSeqUpdates == 32
MaxDirectCalls == 3

\* The sleeps of the index poll loop, in seconds, and the age from which the
\* freshness test `age < 2.5` fails for ever after (ages are whole seconds)
SleepFresh == 1
SleepPoll == 3
StaleAge == 3

Callers == 1..NCallers
Writers == {"boot", "rest", "push", "direct"}

VARIABLES
    socketio,                    \* TRUE iff `import socketio` succeeded
    _price_cache,                \* symbol -> raw record (dict content)
    _indices_cache,              \* list of normalized index items
    indices_stamped,             \* _indices_last_update > 0
    indices_age,                 \* time.time() - _indices_last_update, capped at StaleAge
    _indices_source,
    _indices_history,            \* symbol -> list object
    heap,                        \* list object -> its content
    _refresh_thread_started,
    _indices_thread_started,
    _indices_ws_thread_started,
    _lock,                       \* 0, or the caller that holds it
    caller,                      \* request threads
    wr,                          \* frames of _update_indices_cache, one per calling thread
    poll,                        \* the _indices_refresh_loop thread
    ws,                          \* the _indices_ws_loop thread
    bulk,                        \* the _background_refresh_loop thread
    spawned,                     \* threads started so far, per target
    written_by,                  \* which update call wrote snapshot / stamp / tag
    rest_fetches,                \* REST index fetches issued so far
    push_msgs,                   \* push messages delivered so far
    bulk_cycles,                 \* update_bulk_cache calls so far
    boot_yield,                  \* what the blocking first index fetch gave
    last_call                    \* the latest direct call of a method, as a unit test makes it

index_vars == <<_indices_cache, indices_stamped, indices_age, _indices_source,
                _indices_history, heap, written_by>>
flag_vars == <<_refresh_thread_started, _indices_thread_started,
               _indices_ws_thread_started>>
count_vars == <<rest_fetches, push_msgs, bulk_cycles, boot_yield>>
vars == <<socketio, _price_cache, index_vars, flag_vars, _lock, caller, wr, poll, ws,
          bulk, spawned, count_vars, last_call>>

Range(f) == {f[k] : k \in DOMAIN f}
Min(a, b) == IF a < b THEN a ELSE b
Max(a, b) == IF a > b THEN a ELSE b

\* the first n elements of q: q[:n]
FirstN(q, n) == IF Len(q) <= n THEN q ELSE SubSeq(q, 1, n)

\* the last n elements of q: q[-n:]
LastN(q, n) == IF Len(q) <= n THEN q ELSE SubSeq(q, Len(q) - n + 1, Len(q))

\* ------------------------------------------------------------------------
\* _update_indices_cache, statement by statement
\* ------------------------------------------------------------------------
IdleFrame == [pc |-> "idle", items |-> <<>>, source |-> "", i |-> 0, history |-> 0,
              fv |-> 0, new |-> <<>>]

\* `if not sym or val is None: continue` and `except Exception: continue`
SkipsItem(it) ==
    \/ ~Truthy(Get(it.v, "symbol"))
    \/ Get(it.v, "price") = None
    \/ ~ParseFloat(Get(it.v, "price")).ok

RECURSIVE NextKept(_, _)
NextKept(items, j) ==
    IF j > Len(items) THEN j
    ELSE IF SkipsItem(items[j]) THEN NextKept(items, j + 1) ELSE j

\* the frame at the head of `for item in items`, from item j on
LoopFrom(f, j) ==
    LET k == NextKept(f.items, j)
    IN IF k > Len(f.items) THEN IdleFrame
       ELSE [f EXCEPT !.pc = "h_get", !.i = k, !.history = 0, !.new = <<>>,
                      !.fv = ParseFloat(Get(f.items[k].v, "price")).val]

\* list objects nobody refers to any more are dropped
Collect(h, hist, frames) ==
    LET live == Range(hist) \cup {frames[w].history : w \in Writers}
    IN [id \in (DOMAIN h) \cap live |-> h[id]]

FreshId(h) == CHOOSE id \in 1..(Cardinality(DOMAIN h) + 1) : id \notin DOMAIN h

\* the entry without `if not items: return`
CallUpdateNoGuard(w, items, source) ==
    wr' = [wr EXCEPT ![w] = IF items = <<>>
                            THEN [IdleFrame EXCEPT !.pc = "u_cache", !.source = source]
                            ELSE [IdleFrame EXCEPT !.pc = "u_cache", !.items = items,
                                                   !.source = source]]

\* _update_indices_cache(items, source) is entered by thread w
CallUpdate(w, items, source) ==
    IF items = <<>> THEN wr' = wr
    ELSE wr' = [wr EXCEPT ![w] = [IdleFrame EXCEPT !.pc = "u_cache", !.items = items,
                                                   !.source = source]]

\* the snapshot merged by symbol instead of replaced: the records of symbols the
\* new items do not carry stay in the list
UpdSetCacheMerge(w) ==
    /\ wr[w].pc = "u_cache"
    /\ LET carried == {Get(wr[w].items[i].v, "symbol") : i \in 1..Len(wr[w].items)}
       IN _indices_cache' =
              SelectSeq(_indices_cache, LAMBDA it : Get(it.v, "symbol") \notin carried)
              \o wr[w].items
    /\ written_by' = [written_by EXCEPT !.cache = w]
    /\ wr' = [wr EXCEPT ![w].pc = "u_stamp"]
    /\ UNCHANGED <<indices_stamped, indices_age, _indices_source, _indices_history, heap>>

\* cls._indices_cache = items
UpdSetCache(w) ==
    /\ wr[w].pc = "u_cache"
    /\ _indices_cache' = wr[w].items
    /\ written_by' = [written_by EXCEPT !.cache = w]
    /\ wr' = [wr EXCEPT ![w].pc = "u_stamp"]
    /\ UNCHANGED <<indices_stamped, indices_age, _indices_source, _indices_history, heap>>

\* cls._indices_last_update = time.time()
UpdStamp(w) ==
    /\ wr[w].pc = "u_stamp"
    /\ indices_stamped' = TRUE
    /\ indices_age' = 0
    /\ written_by' = [written_by EXCEPT !.stamp = w]
    /\ wr' = [wr EXCEPT ![w].pc = "u_source"]
    /\ UNCHANGED <<_indices_cache, _indices_source, _indices_history, heap>>

\* cls._indices_source = source, then the head of the loop over items
UpdSource(w) ==
    /\ wr[w].pc = "u_source"
    /\ _indices_source' = wr[w].source
    /\ written_by' = [written_by EXCEPT !.source = w]
    /\ wr' = [wr EXCEPT ![w] = LoopFrom(wr[w], 1)]
    /\ UNCHANGED <<_indices_cache, indices_stamped, indices_age, _indices_history, heap>>

\* history = cls._indices_history.setdefault(str(sym), [])
HistGet(w) ==
    /\ wr[w].pc = "h_get"
    /\ LET key == PyStr(Get(wr[w].items[wr[w].i].v, "symbol"))
           id == IF key \in DOMAIN _indices_history THEN _indices_history[key]
                 ELSE FreshId(heap)
       IN /\ _indices_history' =
                 [k \in DOMAIN _indices_history \cup {key} |->
                     IF k = key THEN id ELSE _indices_history[k]]
          /\ heap' = [o \in DOMAIN heap \cup {id} |->
                         IF o \in DOMAIN heap THEN heap[o] ELSE <<>>]
          /\ wr' = [wr EXCEPT ![w].pc = "h_append", ![w].history = id]
    /\ UNCHANGED <<_indices_cache, indices_stamped, indices_age, _indices_source,
                   written_by>>

\* history.append(fv)
HistAppend(w) ==
    /\ wr[w].pc = "h_append"
    /\ heap' = [heap EXCEPT ![wr[w].history] = Append(@, wr[w].fv)]
    /\ wr' = [wr EXCEPT ![w].pc = "h_check"]
    /\ UNCHANGED <<_indices_cache, indices_stamped, indices_age, _indices_source,
                   _indices_history, written_by>>

\* if len(history) > cls._HISTORY_SIZE: ... history[-cls._HISTORY_SIZE:]
HistCheck(w) ==
    /\ wr[w].pc = "h_check"
    /\ LET h == heap[wr[w].history]
           f == IF Len(h) > _HISTORY_SIZE
                THEN [wr[w] EXCEPT !.pc = "h_store", !.new = LastN(h, _HISTORY_SIZE),
                                   !.history = 0]
                ELSE LoopFrom(wr[w], wr[w].i + 1)
       IN /\ wr' = [wr EXCEPT ![w] = f]
          /\ heap' = Collect(heap, _indices_history, wr')
    /\ UNCHANGED <<_indices_cache, indices_stamped, indices_age, _indices_source,
                   _indices_history, written_by>>

\* cls._indices_history[str(sym)] = <the slice>
HistStore(w) ==
    /\ wr[w].pc = "h_store"
    /\ LET key == PyStr(Get(wr[w].items[wr[w].i].v, "symbol"))
           id == FreshId(heap)
       IN /\ _indices_history' =
                 [k \in DOMAIN _indices_history \cup {key} |->
                     IF k = key THEN id ELSE _indices_history[k]]
          /\ wr' = [wr EXCEPT ![w] = LoopFrom(wr[w], wr[w].i + 1)]
          /\ heap' = Collect([o \in DOMAIN heap \cup {id} |->
                                 IF o = id THEN wr[w].new ELSE heap[o]],
                             _indices_history', wr')
    /\ UNCHANGED <<_indices_cache, indices_stamped, indices_age, _indices_source,
                   written_by>>

\* one statement of _update_indices_cache in thread w
UpdateStep(w) ==
    /\ \/ UpdSetCache(w)
       \/ UpdStamp(w)
       \/ UpdSource(w)
       \/ HistGet(w)
       \/ HistAppend(w)
       \/ HistCheck(w)
       \/ HistStore(w)
    /\ UNCHANGED <<socketio, _price_cache, flag_vars, _lock, caller, poll, ws, bulk,
                   spawned, count_vars, last_call>>

\* ------------------------------------------------------------------------
\* REST index fetch
\* ------------------------------------------------------------------------
Raise == [kind |-> "raise"]
Status(code) == [kind |-> "status", code |-> code]
Ok(body) == [kind |-> "ok", code |-> 200, body |-> body]

\* _fetch_indices_rest on the outcome o of session.post / response.json():
\* the exception propagates, a non-200 status gives [], else extract(raw or [])
_fetch_indices_rest(o) ==
    IF o.kind = "raise" THEN [raised |-> TRUE, items |-> <<>>]
    ELSE IF o.code # 200 THEN [raised |-> FALSE, items |-> <<>>]
    ELSE [raised |-> FALSE,
          items |-> _extract_index_items_from_payload(
                        IF Truthy(o.body) THEN o.body ELSE List(<<>>))]

\* Payloads the vendor sends, over REST and over the socket
PayA == List(<<Dict([symbol |-> Str("VNINDEX"), price |-> Num(1200)])>>)
PayB == Dict([data |-> List(<<Dict([s |-> Str("vnindex"), c |-> Str("1205")]),
                              Dict([symbol |-> Str("FOOBAR"), price |-> Num(7)])>>)])
PayC == Dict([result |-> Dict([items |-> List(<<Dict([code |-> Str("FooBar"),
                                                      Price |-> Num(7)])>>)])])
PayD == List(<<Dict([symbol |-> Str("VNINDEX"), price |-> Num(1205)]),
               Dict([Index |-> Str("HNXIndex"), refPrice |-> Num(1200)])>>)

RestOutcomes == {Raise, Status(500), Ok(None), Ok(PayA), Ok(PayC)}
PushPayloads == {PayB, PayC, Str("ping")}

\* ------------------------------------------------------------------------
\* _indices_refresh_loop
\* ------------------------------------------------------------------------
\* if cls._indices_last_update > 0 and ...
PollCheck ==
    /\ poll.pc = "check"
    /\ poll' = [poll EXCEPT !.pc = IF indices_stamped THEN "check2" ELSE "fetch"]
    /\ UNCHANGED <<socketio, _price_cache, index_vars, flag_vars, _lock, caller, wr, ws,
                   bulk, spawned, count_vars, last_call>>

\* the loop without the freshness test: it goes on to fetch
PollNoSkip ==
    /\ poll.pc = "check2"
    /\ poll' = [poll EXCEPT !.pc = "fetch"]
    /\ UNCHANGED <<socketio, _price_cache, index_vars, flag_vars, _lock, caller, wr, ws,
                   bulk, spawned, count_vars, last_call>>

\* the freshness test with a window of 3.5 s, longer than the sleep of 3 s
PollCheck2Long ==
    /\ poll.pc = "check2"
    /\ poll' = IF 2 * indices_age < 7
               THEN [pc |-> "sleep1", timer |-> SleepFresh]
               ELSE [poll EXCEPT !.pc = "fetch"]
    /\ UNCHANGED <<socketio, _price_cache, index_vars, flag_vars, _lock, caller, wr, ws,
                   bulk, spawned, count_vars, last_call>>

\* ... (time.time() - cls._indices_last_update) < 2.5: time.sleep(1); continue
PollCheck2 ==
    /\ poll.pc = "check2"
    /\ poll' = IF 2 * indices_age < 5
               THEN [pc |-> "sleep1", timer |-> SleepFresh]
               ELSE [poll EXCEPT !.pc = "fetch"]
    /\ UNCHANGED <<socketio, _price_cache, index_vars, flag_vars, _lock, caller, wr, ws,
                   bulk, spawned, count_vars, last_call>>

\* items = cls._fetch_indices_rest(): the request goes out
PollFetch(maxf) ==
    /\ poll.pc = "fetch"
    /\ rest_fetches < maxf
    /\ poll' = [poll EXCEPT !.pc = "wait"]
    /\ rest_fetches' = rest_fetches + 1
    /\ UNCHANGED <<socketio, _price_cache, index_vars, flag_vars, _lock, caller, wr, ws,
                   bulk, spawned, push_msgs, bulk_cycles, boot_yield,
                   last_call>>

\* the response without the except clause: an exception ends the thread
PollResponseUncaught(outs) ==
    /\ poll.pc = "wait"
    /\ \E o \in outs :
          LET r == _fetch_indices_rest(o)
          IN IF r.raised
             THEN /\ wr' = wr
                  /\ poll' = [pc |-> "dead", timer |-> 0]
             ELSE IF r.items # <<>>
             THEN /\ CallUpdate("rest", r.items, "REST")
                  /\ poll' = [poll EXCEPT !.pc = "update"]
             ELSE /\ wr' = wr
                  /\ poll' = [pc |-> "sleep3", timer |-> SleepPoll]
    /\ UNCHANGED <<socketio, _price_cache, index_vars, flag_vars, _lock, caller, ws,
                   bulk, spawned, count_vars, last_call>>

\* the response (or the exception) arrives; if items: _update_indices_cache(items, 'REST');
\* the except clause logs; time.sleep(3)
PollResponse(outs) ==
    /\ poll.pc = "wait"
    /\ \E o \in outs :
          LET r == _fetch_indices_rest(o)
          IN IF ~r.raised /\ r.items # <<>>
             THEN /\ CallUpdate("rest", r.items, "REST")
                  /\ poll' = [poll EXCEPT !.pc = "update"]
             ELSE /\ wr' = wr
                  /\ poll' = [pc |-> "sleep3", timer |-> SleepPoll]
    /\ UNCHANGED <<socketio, _price_cache, index_vars, flag_vars, _lock, caller, ws,
                   bulk, spawned, count_vars, last_call>>

\* _update_indices_cache has returned; time.sleep(3)
PollUpdated ==
    /\ poll.pc = "update"
    /\ wr["rest"].pc = "idle"
    /\ poll' = [pc |-> "sleep3", timer |-> SleepPoll]
    /\ UNCHANGED <<socketio, _price_cache, index_vars, flag_vars, _lock, caller, wr, ws,
                   bulk, spawned, count_vars, last_call>>

\* the sleep is over: back to `while True`
PollWake ==
    /\ poll.pc \in {"sleep1", "sleep3"}
    /\ poll.timer = 0
    /\ poll' = [poll EXCEPT !.pc = "check"]
    /\ UNCHANGED <<socketio, _price_cache, index_vars, flag_vars, _lock, caller, wr, ws,
                   bulk, spawned, count_vars, last_call>>

\* ------------------------------------------------------------------------
\* _indices_ws_loop and the _consume handler
\* ------------------------------------------------------------------------
\* if socketio is None: return
WsEntry ==
    /\ ws.pc = "entry"
    /\ ws' = [ws EXCEPT !.pc = IF socketio THEN "start" ELSE "exit"]
    /\ UNCHANGED <<socketio, _price_cache, index_vars, flag_vars, _lock, caller, wr, poll,
                   bulk, spawned, count_vars, last_call>>

\* sio = socketio.Client(...); sio.connect(...): connected, or an exception
\* (except: time.sleep(2), a sleep no clock is read against)
WsConnect ==
    /\ ws.pc = "start"
    /\ \/ ws' = [ws EXCEPT !.pc = "wait"]
       \/ ws' = [ws EXCEPT !.pc = "except"]
    /\ UNCHANGED <<socketio, _price_cache, index_vars, flag_vars, _lock, caller, wr, poll,
                   bulk, spawned, count_vars, last_call>>

\* sio.wait() ends: it returns (the finally clause is entered with no except
\* clause run), or it raises (except: time.sleep(2))
WsWaitEnds ==
    /\ ws.pc = "wait"
    /\ \/ ws' = [ws EXCEPT !.pc = "closed"]
       \/ ws' = [ws EXCEPT !.pc = "except"]
    /\ UNCHANGED <<socketio, _price_cache, index_vars, flag_vars, _lock, caller, wr, poll,
                   bulk, spawned, count_vars, last_call>>

\* sio.wait() had returned; finally: sio.disconnect(); next iteration
WsReconnect ==
    /\ ws.pc = "closed"
    /\ ws' = [ws EXCEPT !.pc = "start"]
    /\ UNCHANGED <<socketio, _price_cache, index_vars, flag_vars, _lock, caller, wr, poll,
                   bulk, spawned, count_vars, last_call>>

\* the listener that gives up after the sleep instead of trying again
WsWakeGivesUp ==
    /\ ws.pc = "except"
    /\ ws' = [ws EXCEPT !.pc = "exit"]
    /\ UNCHANGED <<socketio, _price_cache, index_vars, flag_vars, _lock, caller, wr, poll,
                   bulk, spawned, count_vars, last_call>>

\* time.sleep(2) is over; finally: sio.disconnect(); next iteration
WsWake ==
    /\ ws.pc = "except"
    /\ ws' = [ws EXCEPT !.pc = "start"]
    /\ UNCHANGED <<socketio, _price_cache, index_vars, flag_vars, _lock, caller, wr, poll,
                   bulk, spawned, count_vars, last_call>>

\* the handler without its try: a payload that yields no item ends the connection
PushMessageFatal(payloads, maxm) ==
    /\ ws.pc = "wait"
    /\ wr["push"].pc = "idle"
    /\ push_msgs < maxm
    /\ push_msgs' = push_msgs + 1
    /\ \E p \in payloads :
          /\ CallUpdate("push", _extract_index_items_from_payload(p), "SOCKET_IO")
          /\ ws' = IF _extract_index_items_from_payload(p) = <<>>
                   THEN [ws EXCEPT !.pc = "except"] ELSE ws
    /\ UNCHANGED <<socketio, _price_cache, index_vars, flag_vars, _lock, caller, poll,
                   bulk, spawned, rest_fetches, bulk_cycles, boot_yield,
                   last_call>>

\* _consume(payload): items = extract(payload); if items: update(items, 'SOCKET_IO');
\* an exception is swallowed
PushMessage(payloads, maxm) ==
    /\ ws.pc = "wait"
    /\ wr["push"].pc = "idle"
    /\ push_msgs < maxm
    /\ push_msgs' = push_msgs + 1
    /\ \E p \in payloads :
          CallUpdate("push", _extract_index_items_from_payload(p), "SOCKET_IO")
    /\ UNCHANGED <<socketio, _price_cache, index_vars, flag_vars, _lock, caller, poll, ws,
                   bulk, spawned, rest_fetches, bulk_cycles, boot_yield,
                   last_call>>

\* ------------------------------------------------------------------------
\* ensure_indices_refresh, get_cached_indices, get_indices_source
\* ------------------------------------------------------------------------
NoView == [pc |-> "idle", op |-> "", sym |-> "", item |-> None, ret |-> None,
           top |-> "", todo |-> <<>>, results |-> <<>>, price |-> None, got |-> <<>>,
           direct |-> 0]
At(c, pc) == caller[c].pc = pc
Goto(c, pc) == caller' = [caller EXCEPT ![c].pc = pc]

\* the outer test when a caller that finds the lock taken does not wait for it
EnsureIndicesNoWait(c) ==
    /\ At(c, "idle")
    /\ Goto(c, IF _indices_thread_started \/ _lock # 0 THEN "gi_read" ELSE "ei_lock")
    /\ UNCHANGED <<socketio, _price_cache, index_vars, flag_vars, _lock, wr, poll, ws,
                   bulk, spawned, count_vars, last_call>>

\* get_cached_indices -> ensure_indices_refresh: if not cls._indices_thread_started
EnsureIndicesCheck(c) ==
    /\ At(c, "idle")
    /\ Goto(c, IF _indices_thread_started THEN "gi_read" ELSE "ei_lock")
    /\ UNCHANGED <<socketio, _price_cache, index_vars, flag_vars, _lock, wr, poll, ws,
                   bulk, spawned, count_vars, last_call>>

\* the guard that does not wait for the lock to be free
EnsureIndicesLockFree(c) ==
    /\ At(c, "ei_lock")
    /\ _lock' = c
    /\ Goto(c, IF _indices_thread_started THEN "ei_release" ELSE "ei_fetch")
    /\ UNCHANGED <<socketio, _price_cache, index_vars, flag_vars, wr, poll, ws,
                   bulk, spawned, count_vars, last_call>>

\* the guard without the second look at the flag once the lock is held
EnsureIndicesLockNoRecheck(c) ==
    /\ At(c, "ei_lock")
    /\ _lock = 0
    /\ _lock' = c
    /\ Goto(c, "ei_fetch")
    /\ UNCHANGED <<socketio, _price_cache, index_vars, flag_vars, wr, poll, ws,
                   bulk, spawned, count_vars, last_call>>

\* with cls._lock: if not cls._indices_thread_started (the flag is written under
\* the lock only, so what is read here is what it was when the lock was taken)
EnsureIndicesLock(c) ==
    /\ At(c, "ei_lock")
    /\ _lock = 0
    /\ _lock' = c
    /\ Goto(c, IF _indices_thread_started THEN "ei_release" ELSE "ei_fetch")
    /\ UNCHANGED <<socketio, _price_cache, index_vars, flag_vars, wr, poll, ws,
                   bulk, spawned, count_vars, last_call>>

\* items = cls._fetch_indices_rest(): the blocking first fetch goes out
BootFetch(c) ==
    /\ At(c, "ei_fetch")
    /\ Goto(c, "ei_wait")
    /\ rest_fetches' = rest_fetches + 1
    /\ UNCHANGED <<socketio, _price_cache, index_vars, flag_vars, _lock, wr, poll, ws,
                   bulk, spawned, push_msgs, bulk_cycles, boot_yield,
                   last_call>>

\* the bootstrap without try and without `with`: the exception of the fetch
\* leaves ensure_indices_refresh with the lock still held
BootResponseLeak(c, outs) ==
    /\ At(c, "ei_wait")
    /\ \E o \in outs :
          LET r == _fetch_indices_rest(o)
          IN IF r.raised
             THEN /\ wr' = wr
                  /\ boot_yield' = "nothing"
                  /\ caller' = [caller EXCEPT ![c] = [NoView EXCEPT !.ret = [t |-> "exc"]]]
             ELSE IF r.items # <<>>
             THEN /\ CallUpdate("boot", r.items, "REST")
                  /\ boot_yield' = "records"
                  /\ Goto(c, "ei_update")
             ELSE /\ wr' = wr
                  /\ boot_yield' = "nothing"
                  /\ Goto(c, "ei_ws")
    /\ UNCHANGED <<socketio, _price_cache, index_vars, flag_vars, _lock, poll, ws,
                   bulk, spawned, rest_fetches, push_msgs, bulk_cycles, last_call>>

\* its response: if items: _update_indices_cache(items, 'REST'); except: warning
\* (boot_yield keeps whether the first fetch gave records)
BootResponse(c, outs) ==
    /\ At(c, "ei_wait")
    /\ \E o \in outs :
          LET r == _fetch_indices_rest(o)
          IN IF ~r.raised /\ r.items # <<>>
             THEN /\ CallUpdate("boot", r.items, "REST")
                  /\ boot_yield' = "records"
                  /\ Goto(c, "ei_update")
             ELSE /\ wr' = wr
                  /\ boot_yield' = "nothing"
                  /\ Goto(c, "ei_ws")
    /\ UNCHANGED <<socketio, _price_cache, index_vars, flag_vars, _lock, poll, ws,
                   bulk, spawned, rest_fetches, push_msgs, bulk_cycles, last_call>>

\* _update_indices_cache has returned
BootUpdated(c) ==
    /\ At(c, "ei_update")
    /\ wr["boot"].pc = "idle"
    /\ Goto(c, "ei_ws")
    /\ UNCHANGED <<socketio, _price_cache, index_vars, flag_vars, _lock, wr, poll, ws,
                   bulk, spawned, count_vars, last_call>>

\* the listener started without the test for the socket library
SpawnWsAnyway(c) ==
    /\ At(c, "ei_ws")
    /\ IF ~_indices_ws_thread_started
       THEN /\ spawned' = [spawned EXCEPT !.ws = @ + 1]
            /\ ws' = [ws EXCEPT !.pc = "entry"]
            /\ Goto(c, "ei_wsflag")
       ELSE /\ UNCHANGED <<spawned, ws>>
            /\ Goto(c, "ei_spawn")
    /\ UNCHANGED <<socketio, _price_cache, index_vars, flag_vars, _lock, wr, poll,
                   bulk, count_vars, last_call>>

\* if socketio is not None and not cls._indices_ws_thread_started: ws_thread.start()
SpawnWs(c) ==
    /\ At(c, "ei_ws")
    /\ IF socketio /\ ~_indices_ws_thread_started
       THEN /\ spawned' = [spawned EXCEPT !.ws = @ + 1]
            /\ ws' = [ws EXCEPT !.pc = "entry"]
            /\ Goto(c, "ei_wsflag")
       ELSE /\ UNCHANGED <<spawned, ws>>
            /\ Goto(c, "ei_spawn")
    /\ UNCHANGED <<socketio, _price_cache, index_vars, flag_vars, _lock, wr, poll,
                   bulk, count_vars, last_call>>

\* cls._indices_ws_thread_started = True
SetWsStarted(c) ==
    /\ At(c, "ei_wsflag")
    /\ _indices_ws_thread_started' = TRUE
    /\ Goto(c, "ei_spawn")
    /\ UNCHANGED <<socketio, _price_cache, index_vars, _refresh_thread_started,
                   _indices_thread_started, _lock, wr, poll, ws, bulk, spawned,
                   count_vars, last_call>>

\* thread = threading.Thread(target=cls._indices_refresh_loop); thread.start()
SpawnIndices(c) ==
    /\ At(c, "ei_spawn")
    /\ spawned' = [spawned EXCEPT !.indices = @ + 1]
    /\ poll' = [pc |-> "check", timer |-> 0]
    /\ Goto(c, "ei_flag")
    /\ UNCHANGED <<socketio, _price_cache, index_vars, flag_vars, _lock, wr, ws,
                   bulk, count_vars, last_call>>

\* cls._indices_thread_started = True
SetIndicesStarted(c) ==
    /\ At(c, "ei_flag")
    /\ _indices_thread_started' = TRUE
    /\ Goto(c, "ei_release")
    /\ UNCHANGED <<socketio, _price_cache, index_vars, _refresh_thread_started,
                   _indices_ws_thread_started, _lock, wr, poll, ws, bulk, spawned,
                   count_vars, last_call>>

\* the with block is left: the lock is released; ensure_indices_refresh returns
EnsureIndicesRelease(c) ==
    /\ At(c, "ei_release")
    /\ _lock' = 0
    /\ Goto(c, "gi_read")
    /\ UNCHANGED <<socketio, _price_cache, index_vars, flag_vars, wr, poll, ws,
                   bulk, spawned, count_vars, last_call>>

\* get_cached_indices: return cls._indices_cache
GetCachedIndices(c) ==
    /\ At(c, "gi_read")
    /\ Goto(c, "idle")
    /\ UNCHANGED <<socketio, _price_cache, index_vars, flag_vars, _lock, wr, poll, ws,
                   bulk, spawned, count_vars, last_call>>

\* get_indices_history: return cls._indices_history (the dict itself);
\* get_indices_source: return cls._indices_source
IndexGetters == {"get_indices_history", "get_indices_source"}
getter_value(op) ==
    IF op = "get_indices_history" THEN [t |-> "ref", v |-> _indices_history]
    ELSE Str(_indices_source)

GetIndicesState(c) ==
    /\ At(c, "idle")
    /\ \E op \in IndexGetters :
          caller' = [caller EXCEPT ![c] = [NoView EXCEPT !.op = op,
                                                         !.ret = getter_value(op)]]
    /\ UNCHANGED <<socketio, _price_cache, index_vars, flag_vars, _lock, wr, poll, ws,
                   bulk, spawned, count_vars, last_call>>

\* ------------------------------------------------------------------------
\* ensure_background_refresh
\* ------------------------------------------------------------------------
\* where ensure_background_refresh returns to
AfterRefresh(c) ==
    CASE caller[c].op = "get_price_detail" -> "pd_lookup"
      [] caller[c].op = "get_multiple_prices" -> "mp_loop"
      [] OTHER -> "idle"

\* a request thread calls ensure_background_refresh()
CallEnsureRefresh(c) ==
    /\ At(c, "idle")
    /\ caller' = [caller EXCEPT ![c] = [NoView EXCEPT !.pc = "eb_check",
                                                      !.op = "ensure_background_refresh"]]
    /\ UNCHANGED <<socketio, _price_cache, index_vars, flag_vars, _lock, wr, poll, ws,
                   bulk, spawned, count_vars, last_call>>

\* if not cls._refresh_thread_started
EnsureRefreshCheck(c) ==
    /\ At(c, "eb_check")
    /\ Goto(c, IF _refresh_thread_started THEN AfterRefresh(c) ELSE "eb_lock")
    /\ UNCHANGED <<socketio, _price_cache, index_vars, flag_vars, _lock, wr, poll, ws,
                   bulk, spawned, count_vars, last_call>>

\* with cls._lock: if not cls._refresh_thread_started
EnsureRefreshLock(c) ==
    /\ At(c, "eb_lock")
    /\ _lock = 0
    /\ _lock' = c
    /\ Goto(c, IF _refresh_thread_started THEN "eb_release" ELSE "eb_spawn")
    /\ UNCHANGED <<socketio, _price_cache, index_vars, flag_vars, wr, poll, ws,
                   bulk, spawned, count_vars, last_call>>

\* thread = threading.Thread(target=cls._background_refresh_loop); thread.start()
SpawnRefresh(c) ==
    /\ At(c, "eb_spawn")
    /\ spawned' = [spawned EXCEPT !.refresh = @ + 1]
    /\ bulk' = [bulk EXCEPT !.pc = "run"]
    /\ Goto(c, "eb_flag")
    /\ UNCHANGED <<socketio, _price_cache, index_vars, flag_vars, _lock, wr, poll, ws,
                   count_vars, last_call>>

\* cls._refresh_thread_started = True
SetRefreshStarted(c) ==
    /\ At(c, "eb_flag")
    /\ _refresh_thread_started' = TRUE
    /\ Goto(c, "eb_release")
    /\ UNCHANGED <<socketio, _price_cache, index_vars, _indices_thread_started,
                   _indices_ws_thread_started, _lock, wr, poll, ws, bulk, spawned,
                   count_vars, last_call>>

\* the with block is left: the lock is released; ensure_background_refresh returns
EnsureRefreshRelease(c) ==
    /\ At(c, "eb_release")
    /\ _lock' = 0
    /\ Goto(c, AfterRefresh(c))
    /\ UNCHANGED <<socketio, _price_cache, index_vars, flag_vars, wr, poll, ws,
                   bulk, spawned, count_vars, last_call>>

\* ------------------------------------------------------------------------
\* _fetch_group_prices, update_bulk_cache, _background_refresh_loop
\* ------------------------------------------------------------------------
Groups == <<"HOSE", "HNX", "UPCOM">>

\* b.update(a): the entries of a, overridden by those of b
MapUpdate(a, b) ==
    [k \in DOMAIN a \cup DOMAIN b |-> IF k \in DOMAIN b THEN b[k] ELSE a[k]]

\* { item['s']: item for item in data if 's' in item }: None when the
\* comprehension raises (data is no list, an item is no dict)
RECURSIVE by_s(_)
by_s(data) ==
    IF data = <<>> THEN <<>>
    ELSE LET it == data[Len(data)]
             front == by_s(SubSeq(data, 1, Len(data) - 1))
         IN IF "s" \in DOMAIN it.v
            THEN MapUpdate(front, [k \in {it.v["s"].v} |-> it.v])
            ELSE front

_fetch_group_prices(o) ==
    IF o.kind = "raise" THEN <<>>
    ELSE IF o.code # 200 THEN <<>>
    ELSE IF o.body.t # "list" THEN <<>>
    ELSE IF \E i \in 1..Len(o.body.v) : o.body.v[i].t # "dict" THEN <<>>
    ELSE by_s(o.body.v)

GroupNames == Range(Groups)
Pending == [done |-> FALSE, map |-> <<>>]
NoResults == [g \in GroupNames |-> Pending]

\* the merge poured into the cache in place instead of into a new dict
RECURSIVE mergedInPlace(_, _)
mergedInPlace(results, n) ==
    IF n = 0 THEN _price_cache
    ELSE MapUpdate(mergedInPlace(results, n - 1), results[Groups[n]].map)

\* for res in results: new_cache.update(res)
RECURSIVE merged(_, _)
merged(results, n) ==
    IF n = 0 THEN <<>>
    ELSE MapUpdate(merged(results, n - 1), results[Groups[n]].map)

\* while True: cls.update_bulk_cache(): the three group requests go out
BulkStart(maxc) ==
    /\ bulk.pc = "run"
    /\ bulk_cycles < maxc
    /\ bulk_cycles' = bulk_cycles + 1
    /\ bulk' = [pc |-> "fetch", results |-> NoResults, before |-> _price_cache]
    /\ UNCHANGED <<socketio, _price_cache, index_vars, flag_vars, _lock, caller, wr, poll,
                   ws, spawned, rest_fetches, push_msgs, boot_yield,
                   last_call>>

\* the pool worker that pours its group into the published cache as it ends
GroupFetchPublishing(g, outs) ==
    /\ bulk.pc = "fetch"
    /\ ~bulk.results[g].done
    /\ \E o \in outs :
          /\ bulk' = [bulk EXCEPT !.results[g] = [done |-> TRUE,
                                                  map |-> _fetch_group_prices(o)]]
          /\ _price_cache' = MapUpdate(_price_cache, _fetch_group_prices(o))
    /\ UNCHANGED <<socketio, index_vars, flag_vars, _lock, caller, wr, poll,
                   ws, spawned, count_vars, last_call>>

\* a worker of the pool ends _fetch_group_prices(g)
GroupFetch(g, outs) ==
    /\ bulk.pc = "fetch"
    /\ ~bulk.results[g].done
    /\ \E o \in outs :
          bulk' = [bulk EXCEPT !.results[g] = [done |-> TRUE,
                                               map |-> _fetch_group_prices(o)]]
    /\ UNCHANGED <<socketio, _price_cache, index_vars, flag_vars, _lock, caller, wr, poll,
                   ws, spawned, count_vars, last_call>>

\* the publication without `if new_cache:`
BulkPublishAlways ==
    /\ bulk.pc = "fetch"
    /\ \A g \in GroupNames : bulk.results[g].done
    /\ _price_cache' = merged(bulk.results, Len(Groups))
    /\ bulk' = [bulk EXCEPT !.pc = "sleep"]
    /\ UNCHANGED <<socketio, index_vars, flag_vars, _lock, caller, wr, poll,
                   ws, spawned, count_vars, last_call>>

\* the results are merged; if new_cache: cls._price_cache = new_cache; time.sleep(12)
BulkPublish ==
    /\ bulk.pc = "fetch"
    /\ \A g \in GroupNames : bulk.results[g].done
    /\ LET new_cache == merged(bulk.results, Len(Groups))
       IN _price_cache' = IF new_cache # <<>> THEN new_cache ELSE _price_cache
    /\ bulk' = [bulk EXCEPT !.pc = "sleep"]
    /\ UNCHANGED <<socketio, index_vars, flag_vars, _lock, caller, wr, poll,
                   ws, spawned, count_vars, last_call>>

\* time.sleep(12) is over (a sleep no clock is read against)
BulkWake ==
    /\ bulk.pc = "sleep"
    /\ bulk' = [bulk EXCEPT !.pc = "run"]
    /\ UNCHANGED <<socketio, _price_cache, index_vars, flag_vars, _lock, caller, wr, poll,
                   ws, spawned, count_vars, last_call>>

\* ------------------------------------------------------------------------
\* get_price_detail
\* ------------------------------------------------------------------------
Exc == [t |-> "exc"]

\* the two keys of a result that are no numbers
LabelKeys == {"symbol", "source"}

\* float(a or b or ... or 0)
FloatOf(chain) == ParseFloat(OrChain(chain \o <<Num(0)>>))

\* the dict built from (key, float(...)) pairs, or the exception of a float()
Detail(symbol, floats, source) ==
    IF \E k \in DOMAIN floats : ~floats[k].ok THEN Exc
    ELSE Dict([k \in DOMAIN floats \cup LabelKeys |->
                  CASE k = "symbol" -> symbol
                    [] k = "source" -> Str(source)
                    [] OTHER -> Num(floats[k].val)])

\* the cache-hit branch with the price chain of the direct branch (c, ref)
hit_detail_c_ref(it) ==
    Detail(Get(it, "s"),
           [price |-> FloatOf(<<Get(it, "c"), Get(it, "ref")>>),
            ref_price |-> FloatOf(<<Get(it, "ref")>>),
            ceiling |-> FloatOf(<<Get(it, "cei")>>),
            floor |-> FloatOf(<<Get(it, "flo")>>),
            open |-> FloatOf(<<Get(it, "op")>>),
            high |-> FloatOf(<<Get(it, "h")>>),
            low |-> FloatOf(<<Get(it, "l")>>),
            volume |-> FloatOf(<<Get(it, "vo")>>),
            value |-> FloatOf(<<Get(it, "va")>>)],
           "VCI_RAM")

\* the cache-hit branch: the normalized view of the cached record
hit_detail(it) ==
    Detail(Get(it, "s"),
           [price |-> FloatOf(<<Get(it, "c"), Get(it, "ref"), Get(it, "op")>>),
            ref_price |-> FloatOf(<<Get(it, "ref")>>),
            ceiling |-> FloatOf(<<Get(it, "cei")>>),
            floor |-> FloatOf(<<Get(it, "flo")>>),
            open |-> FloatOf(<<Get(it, "op")>>),
            high |-> FloatOf(<<Get(it, "h")>>),
            low |-> FloatOf(<<Get(it, "l")>>),
            volume |-> FloatOf(<<Get(it, "vo")>>),
            value |-> FloatOf(<<Get(it, "va")>>)],
           "VCI_RAM")

\* the direct fallback on the outcome o of session.get / response.json(): every
\* exception is swallowed and gives None
direct_item(o) ==
    IF o.kind = "raise" THEN None
    ELSE IF o.code # 200 THEN None
    ELSE IF ~Truthy(o.body) THEN None
    ELSE IF o.body.t # "list" THEN None
    ELSE IF o.body.v[1].t # "dict" THEN None
    ELSE o.body.v[1]

direct_detail(o) ==
    LET it == direct_item(o)
        d == Detail(Get(it.v, "s"),
                    [price |-> FloatOf(<<Get(it.v, "c"), Get(it.v, "ref")>>),
                     ref_price |-> FloatOf(<<Get(it.v, "ref")>>),
                     open |-> FloatOf(<<Get(it.v, "op")>>)],
                    "VCI_DIRECT")
    IN IF it = None THEN None
       ELSE IF d = Exc THEN None ELSE d

\* get_price_detail(symbol): symbol = symbol.upper(); cls.ensure_background_refresh()
CallGetPriceDetail(c, symbols) ==
    /\ At(c, "idle")
    /\ \E symbol \in symbols :
          caller' = [caller EXCEPT ![c] = [NoView EXCEPT !.pc = "eb_check",
                                                         !.op = "get_price_detail",
                                                         !.sym = Upper(symbol)]]
    /\ UNCHANGED <<socketio, _price_cache, index_vars, flag_vars, _lock, wr, poll, ws,
                   bulk, spawned, count_vars, last_call>>

\* get_price_detail, had it gone to the vendor before looking at the cache
PriceLookupRemote(c) ==
    /\ At(c, "pd_lookup")
    /\ caller' = [caller EXCEPT ![c] = [@ EXCEPT !.pc = "pd_fetch"]]
    /\ UNCHANGED <<socketio, _price_cache, index_vars, flag_vars, _lock, wr, poll, ws,
                   bulk, spawned, count_vars, last_call>>

\* item = cls._price_cache.get(symbol); if item: return {...}
PriceLookup(c) ==
    /\ At(c, "pd_lookup")
    /\ LET item == IF caller[c].sym \in DOMAIN _price_cache
                   THEN Dict(_price_cache[caller[c].sym]) ELSE None
       IN caller' = [caller EXCEPT ![c] =
                        IF Truthy(item)
                        THEN [@ EXCEPT !.pc = "pd_done", !.item = item,
                                       !.ret = hit_detail(item.v)]
                        ELSE [@ EXCEPT !.pc = "pd_fetch"]]
    /\ UNCHANGED <<socketio, _price_cache, index_vars, flag_vars, _lock, wr, poll, ws,
                   bulk, spawned, count_vars, last_call>>

\* the direct fallback, had it kept the fetched record in the cache
PriceDirectCaching(c, outs) ==
    /\ At(c, "pd_fetch")
    /\ \E o \in outs :
          /\ caller' = [caller EXCEPT ![c] = [@ EXCEPT !.pc = "pd_done",
                                                       !.item = direct_item(o),
                                                       !.ret = direct_detail(o),
                                                       !.direct = @ + 1]]
          /\ _price_cache' = IF direct_item(o) = None THEN _price_cache
                             ELSE MapUpdate(_price_cache, caller[c].sym :> direct_item(o).v)
    /\ UNCHANGED <<socketio, index_vars, flag_vars, _lock, wr, poll, ws,
                   bulk, spawned, count_vars, last_call>>

\* response = cls._session.get(url, timeout=3) ... return {...} / return None
\* (direct counts the requests of this call)
PriceDirect(c, outs) ==
    /\ At(c, "pd_fetch")
    /\ \E o \in outs :
          caller' = [caller EXCEPT ![c] = [@ EXCEPT !.pc = "pd_done",
                                                    !.item = direct_item(o),
                                                    !.ret = direct_detail(o),
                                                    !.direct = @ + 1]]
    /\ UNCHANGED <<socketio, _price_cache, index_vars, flag_vars, _lock, wr, poll, ws,
                   bulk, spawned, count_vars, last_call>>

\* the caller of get_price_detail has its answer
PriceAnswered(c) ==
    /\ At(c, "pd_done")
    /\ caller[c].top = ""
    /\ caller' = [caller EXCEPT ![c] = NoView]
    /\ UNCHANGED <<socketio, _price_cache, index_vars, flag_vars, _lock, wr, poll, ws,
                   bulk, spawned, count_vars, last_call>>

PriceCall(c, symbols, outs) ==
    \/ CallGetPriceDetail(c, symbols)
    \/ PriceLookup(c)
    \/ PriceDirect(c, outs)
    \/ PriceAnswered(c)

\* ------------------------------------------------------------------------
\* get_price, get_multiple_prices
\* ------------------------------------------------------------------------
\* get_price(symbol): detail = cls.get_price_detail(symbol)
CallGetPrice(c, symbols) ==
    /\ At(c, "idle")
    /\ \E symbol \in symbols :
          caller' = [caller EXCEPT ![c] = [NoView EXCEPT !.pc = "eb_check",
                                                         !.op = "get_price_detail",
                                                         !.top = "get_price",
                                                         !.sym = Upper(symbol)]]
    /\ UNCHANGED <<socketio, _price_cache, index_vars, flag_vars, _lock, wr, poll, ws,
                   bulk, spawned, count_vars, last_call>>

\* if detail: return detail.get('price'); return None. An exception of
\* get_price_detail passes through
get_price(detail) ==
    IF detail = Exc THEN Exc
    ELSE IF Truthy(detail) THEN Get(detail.v, "price") ELSE None

\* get_price_detail has returned into get_price, which returns (got lists what
\* get_price returned during this call)
GetPriceReturn(c) ==
    /\ At(c, "pd_done")
    /\ caller[c].top # ""
    /\ caller' = [caller EXCEPT ![c] = [@ EXCEPT !.pc = "gp_done", !.op = "get_price",
                                                 !.price = get_price(caller[c].ret),
                                                 !.got = Append(@, [sym |-> caller[c].sym,
                                                                    price |-> get_price(caller[c].ret)])]]
    /\ UNCHANGED <<socketio, _price_cache, index_vars, flag_vars, _lock, wr, poll, ws,
                   bulk, spawned, count_vars, last_call>>

\* the caller of get_price has its answer
GetPriceAnswered(c) ==
    /\ At(c, "gp_done")
    /\ caller[c].top = "get_price"
    /\ caller' = [caller EXCEPT ![c] = NoView]
    /\ UNCHANGED <<socketio, _price_cache, index_vars, flag_vars, _lock, wr, poll, ws,
                   bulk, spawned, count_vars, last_call>>

\* get_multiple_prices(symbols): cls.ensure_background_refresh(); results = {}
CallGetMultiplePrices(c, lists) ==
    /\ At(c, "idle")
    /\ \E symbols \in lists :
          caller' = [caller EXCEPT ![c] = [NoView EXCEPT !.pc = "eb_check",
                                                         !.op = "get_multiple_prices",
                                                         !.top = "get_multiple_prices",
                                                         !.todo = symbols]]
    /\ UNCHANGED <<socketio, _price_cache, index_vars, flag_vars, _lock, wr, poll, ws,
                   bulk, spawned, count_vars, last_call>>

\* for symbol in symbols: price = cls.get_price(symbol) ... return results
MultiNext(c) ==
    /\ At(c, "mp_loop")
    /\ caller' = [caller EXCEPT ![c] =
                     IF caller[c].todo = <<>>
                     THEN [@ EXCEPT !.pc = "mp_done"]
                     ELSE [@ EXCEPT !.pc = "eb_check", !.op = "get_price_detail",
                                    !.sym = Upper(Head(caller[c].todo)),
                                    !.item = None, !.ret = None, !.price = None,
                                    !.direct = 0]]
    /\ UNCHANGED <<socketio, _price_cache, index_vars, flag_vars, _lock, wr, poll, ws,
                   bulk, spawned, count_vars, last_call>>

\* results[symbol.upper()] = price without the test of the price
storedAny(results, symbol, price) == MapUpdate(results, Upper(symbol) :> price)

\* if price: results[symbol.upper()] = price
stored(results, symbol, price) ==
    IF Truthy(price) THEN MapUpdate(results, Upper(symbol) :> price) ELSE results

\* get_price has returned into the loop of get_multiple_prices; its exception
\* ends the call
MultiStore(c) ==
    /\ At(c, "gp_done")
    /\ caller[c].top = "get_multiple_prices"
    /\ caller' = [caller EXCEPT ![c] =
                     IF caller[c].price = Exc
                     THEN [@ EXCEPT !.pc = "mp_done", !.op = "get_multiple_prices"]
                     ELSE [@ EXCEPT !.pc = "mp_loop", !.op = "get_multiple_prices",
                                    !.results = stored(@, Head(caller[c].todo),
                                                       caller[c].price),
                                    !.todo = Tail(@)]]
    /\ UNCHANGED <<socketio, _price_cache, index_vars, flag_vars, _lock, wr, poll, ws,
                   bulk, spawned, count_vars, last_call>>

\* the caller of get_multiple_prices has its answer
MultiAnswered(c) ==
    /\ At(c, "mp_done")
    /\ caller' = [caller EXCEPT ![c] = NoView]
    /\ UNCHANGED <<socketio, _price_cache, index_vars, flag_vars, _lock, wr, poll, ws,
                   bulk, spawned, count_vars, last_call>>

AccessorCall(c, symbols, lists) ==
    \/ CallGetPrice(c, symbols)
    \/ GetPriceReturn(c)
    \/ GetPriceAnswered(c)
    \/ CallGetMultiplePrices(c, lists)
    \/ MultiNext(c)
    \/ MultiStore(c)
    \/ MultiAnswered(c)

\* ------------------------------------------------------------------------
\* _update_indices_cache called by itself, as a unit test does
\* ------------------------------------------------------------------------
DirectItems == {<<>>} \cup {_extract_index_items_from_payload(p) : p \in {PayA, PayB, PayD}}
DirectSources == {"REST", "SOCKET_IO", "TEST"}

DirectCall(maxd) ==
    /\ wr["direct"].pc = "idle"
    /\ last_call.n < maxd
    /\ \E items \in DirectItems, source \in DirectSources :
          /\ CallUpdate("direct", items, source)
          /\ last_call' = [n |-> last_call.n + 1, items |-> items, source |-> source]
    /\ UNCHANGED <<socketio, _price_cache, index_vars, flag_vars, _lock, caller, poll, ws,
                   bulk, spawned, count_vars>>

\* ------------------------------------------------------------------------
\* Time: a second passes
\* ------------------------------------------------------------------------
Tick ==
    /\ indices_age' = IF indices_stamped THEN Min(indices_age + 1, StaleAge)
                      ELSE indices_age
    /\ poll' = [poll EXCEPT !.timer = Max(@ - 1, 0)]
    /\ UNCHANGED <<socketio, _price_cache, _indices_cache, indices_stamped,
                   _indices_source, _indices_history, heap, written_by, flag_vars,
                   _lock, caller, wr, ws, bulk, spawned, count_vars, last_call>>

\* ------------------------------------------------------------------------
\* The process after the class body has run
\* ------------------------------------------------------------------------
Init == 
    /\ socketio \in BOOLEAN
    /\ _price_cache = <<>>
    /\ _indices_cache = <<>>
    /\ indices_stamped = FALSE
    /\ indices_age = StaleAge
    /\ _indices_source = "EMPTY"
    /\ _indices_history = <<>>
    /\ heap = <<>>
    /\ _refresh_thread_started = FALSE
    /\ _indices_thread_started = FALSE
    /\ _indices_ws_thread_started = FALSE
    /\ _lock = 0
    /\ caller = [c \in Callers |-> NoView]
    /\ wr = [w \in Writers |-> IdleFrame]
    /\ poll = [pc |-> "off", timer |-> 0]
    /\ ws = [pc |-> "off"]
    /\ bulk = [pc |-> "off", results |-> NoResults, before |-> <<>>]
    /\ spawned = [refresh |-> 0, indices |-> 0, ws |-> 0]
    /\ written_by = [cache |-> "none", stamp |-> "none", source |-> "none"]
    /\ rest_fetches = 0
    /\ push_msgs = 0
    /\ bulk_cycles = 0
    /\ boot_yield = "pending"
    /\ last_call = [n |-> 0, items |-> <<>>, source |-> ""]

\* ensure_indices_refresh / get_cached_indices in request thread c
IndicesCall(c, outs) ==
    \/ EnsureIndicesCheck(c)
    \/ EnsureIndicesLock(c)
    \/ BootFetch(c)
    \/ BootResponse(c, outs)
    \/ BootUpdated(c)
    \/ SpawnWs(c)
    \/ SetWsStarted(c)
    \/ SpawnIndices(c)
    \/ SetIndicesStarted(c)
    \/ EnsureIndicesRelease(c)
    \/ GetCachedIndices(c)

\* ensure_background_refresh in request thread c
RefreshCall(c) ==
    \/ CallEnsureRefresh(c)
    \/ EnsureRefreshCheck(c)
    \/ EnsureRefreshLock(c)
    \/ SpawnRefresh(c)
    \/ SetRefreshStarted(c)
    \/ EnsureRefreshRelease(c)

\* The index subsystem at work: one request thread, the REST poll loop, the
\* socket listener and the clock
Next ==
    \/ IndicesCall(1, RestOutcomes)
    \/ UpdateStep("boot")
    \/ UpdateStep("rest")
    \/ UpdateStep("push")
    \/ PollCheck
    \/ PollCheck2
    \/ PollFetch(MaxRestFetches)
    \/ PollResponse(RestOutcomes)
    \/ PollUpdated
    \/ PollWake
    \/ WsEntry
    \/ WsConnect
    \/ WsWaitEnds
    \/ WsReconnect
    \/ PushMessage(PushPayloads, MaxPushMsgs)
    \/ WsWake
    \/ Tick

Spec == Init /\ [][Next]_vars

\* Start-up: any number of request threads in both lifecycle guards
NextStart ==
    \/ \E c \in Callers : IndicesCall(c, RestOutcomes)
    \/ \E c \in Callers : RefreshCall(c)
    \/ UpdateStep("boot")

SpecStart == Init /\ [][NextStart]_vars

\* The REST poll loop alone (the socket listener silent), every fetch answered with VNINDEX at its k-th price
\* (here k itself), with or without a second index beside it
SeqBody(k, two) ==
    List(<<Dict([symbol |-> Str("VNINDEX"), price |-> Num(k)])>>
         \o (IF two THEN <<Dict([s |-> Str("vn30"), c |-> Str("1200")])>> ELSE <<>>))
SeqOutcomes == {Ok(SeqBody(rest_fetches, two)) : two \in BOOLEAN}

NextSeq ==
    \/ IndicesCall(1, SeqOutcomes)
    \/ UpdateStep("boot")
    \/ UpdateStep("rest")
    \/ PollCheck
    \/ PollCheck2
    \/ PollFetch(MaxSeqUpdates)
    \/ PollResponse(SeqOutcomes)
    \/ PollUpdated
    \/ PollWake
    \/ Tick

SpecSeq == Init /\ [][NextSeq]_vars

\* _update_indices_cache on its own
NextUpdate ==
    \/ DirectCall(MaxDirectCalls)
    \/ UpdateStep("direct")
    \/ Tick

SpecUpdate == Init /\ [][NextUpdate]_vars

\* Both poll loops at work, the socket listener silent
PollRestOutcomes == {Raise, Status(500), Ok(None), Ok(PayA), Ok(PayC)}
VNM80 == Dict([s |-> Str("VNM"), c |-> Num(80), ref |-> Num(79)])
HoseUpOrDown == {Raise, Ok(List(<<VNM80>>))}
OthersDown == {Status(500), Ok(None)}
PollGroupOutcomes(g) == IF g = "HOSE" THEN HoseUpOrDown ELSE OthersDown

NextPolls ==
    \/ IndicesCall(1, PollRestOutcomes)
    \/ RefreshCall(1)
    \/ UpdateStep("boot")
    \/ UpdateStep("rest")
    \/ PollCheck
    \/ PollCheck2
    \/ PollFetch(MaxRestFetches)
    \/ PollResponse(PollRestOutcomes)
    \/ PollUpdated
    \/ PollWake
    \/ BulkStart(MaxBulkCycles)
    \/ \E g \in GroupNames : GroupFetch(g, PollGroupOutcomes(g))
    \/ BulkPublish
    \/ BulkWake
    \/ Tick

SpecPolls == Init /\ [][NextPolls]_vars

\* The price board: the bulk loop and a request thread in get_price_detail.
\* Board values are in tenths (800 is 80.0)
VNM800 == Dict([s |-> Str("VNM"), c |-> Num(800), ref |-> Num(790)])
VNM810 == Dict([s |-> Str("VNM"), c |-> Num(810), ref |-> Num(790)])
FPT == Dict([s |-> Str("FPT"), c |-> Num(1055), ref |-> Num(1050)])
SHS == Dict([s |-> Str("SHS"), c |-> Num(150)])
BSR == Dict([s |-> Str("BSR"), ref |-> Num(200)])
NoSymbol == Dict([c |-> Num(1)])

HoseOutcomes == {Raise, Ok(List(<<VNM800>>)), Ok(List(<<VNM810, FPT>>))}
HnxOutcomes == {Status(500), Ok(None), Ok(List(<<SHS, None>>)), Ok(List(<<SHS>>))}
UpcomOutcomes == {Raise, Ok(List(<<NoSymbol>>)), Ok(List(<<NoSymbol, BSR>>))}
GroupOutcomes(g) ==
    CASE g = "HOSE" -> HoseOutcomes
      [] g = "HNX" -> HnxOutcomes
      [] g = "UPCOM" -> UpcomOutcomes
DirectOutcomes == {Raise, Status(404), Ok(List(<<>>)), Ok(List(<<FPT>>))}
AskedSymbols == {"vnm", "FPT", "XYZ"}

NextPrice ==
    \/ RefreshCall(1)
    \/ PriceCall(1, AskedSymbols, DirectOutcomes)
    \/ BulkStart(MaxBulkCycles)
    \/ \E g \in GroupNames : GroupFetch(g, GroupOutcomes(g))
    \/ BulkPublish
    \/ BulkWake

SpecPrice == Init /\ [][NextPrice]_vars

\* The price accessors: the bulk loop and a request thread in get_price_detail,
\* get_price or get_multiple_prices. The vendor may send a close that is a text
\* ("N/A") and a record whose close is 0
VNMText == Dict([s |-> Str("VNM"), c |-> Str("N/A"), ref |-> Num(790)])
SHSZero == Dict([s |-> Str("SHS"), c |-> Num(0)])
FPTText == Dict([s |-> Str("FPT"), c |-> Str("N/A")])

AccessHose == {Ok(List(<<VNM800>>)), Ok(List(<<VNMText>>))}
AccessHnx == {Ok(List(<<>>)), Ok(List(<<SHSZero>>))}
AccessUpcom == {Raise, Ok(List(<<>>))}
AccessOutcomes(g) ==
    CASE g = "HOSE" -> AccessHose
      [] g = "HNX" -> AccessHnx
      [] g = "UPCOM" -> AccessUpcom
AccessDirect == {Raise, Status(404), Ok(List(<<>>)), Ok(List(<<FPT>>)), Ok(List(<<FPTText>>))}
AccessSymbols == {"vnm", "FPT", "shs"}
AccessLists == {<<"vnm", "XYZ">>, <<"shs", "fpt", "vnm">>}

NextAccess ==
    \/ RefreshCall(1)
    \/ PriceCall(1, AccessSymbols, AccessDirect)
    \/ AccessorCall(1, AccessSymbols, AccessLists)
    \/ BulkStart(MaxBulkCycles)
    \/ \E g \in GroupNames : GroupFetch(g, AccessOutcomes(g))
    \/ BulkPublish
    \/ BulkWake

SpecAccess == Init /\ [][NextAccess]_vars

\* The read paths together: one request thread that reads the indices (through
\* the lifecycle guard and through the plain getters) and the prices, and the
\* bulk loop in which HOSE answers with VNM at 80.0 / 79.0 or fails
HotRest == {Raise, Ok(PayA)}
HotHose == {Raise, Ok(List(<<VNM800>>))}
HotEmpty == {Ok(List(<<>>))}
HotOutcomes(g) == IF g = "HOSE" THEN HotHose ELSE HotEmpty
HotDirect == {Raise, Status(404)}
HotSymbols == {"vnm", "XYZ"}

NextHot ==
    \/ IndicesCall(1, HotRest)
    \/ UpdateStep("boot")
    \/ GetIndicesState(1)
    \/ RefreshCall(1)
    \/ PriceCall(1, HotSymbols, HotDirect)
    \/ CallGetPrice(1, HotSymbols)
    \/ GetPriceReturn(1)
    \/ GetPriceAnswered(1)
    \/ BulkStart(MaxBulkCycles)
    \/ \E g \in GroupNames : GroupFetch(g, HotOutcomes(g))
    \/ BulkPublish
    \/ BulkWake

SpecHot == Init /\ [][NextHot]_vars

\* The loops in the long run. The process has been up for a while with one of
\* the two subsystems started: either the index threads run (snapshot and a full
\* history from earlier REST updates, now stale, the listener connected) and
\* the price guard has not been called yet, or the price loop runs and the
\* index guard has not been called yet. The counters count within a window
\* and start over, so that the loops can go on for ever
LiveRest == {Raise, Status(500), Ok(PayA)}
LivePush == {PayA}
LiveWindow == 1
LiveModes == {"indices", "prices"}

\* the counts start over (no statement of the program)
Forget ==
    /\ rest_fetches = LiveWindow \/ push_msgs = LiveWindow \/ bulk_cycles = LiveWindow
    /\ rest_fetches' = 0
    /\ push_msgs' = 0
    /\ bulk_cycles' = 0
    /\ UNCHANGED <<socketio, _price_cache, index_vars, flag_vars, _lock, caller, wr, poll,
                   ws, bulk, spawned, boot_yield, last_call>>

InitLive ==
    /\ socketio = TRUE
    /\ _price_cache = <<>>
    /\ _lock = 0
    /\ caller = [c \in Callers |-> NoView]
    /\ wr = [w \in Writers |-> IdleFrame]
    /\ rest_fetches = 0
    /\ push_msgs = 0
    /\ bulk_cycles = 0
    /\ last_call = [n |-> 0, items |-> <<>>, source |-> ""]
    /\ \E mode \in LiveModes :
          IF mode = "indices"
          THEN /\ _indices_cache = _extract_index_items_from_payload(PayA)
               /\ indices_stamped = TRUE
               /\ indices_age = StaleAge
               /\ _indices_source = "REST"
               /\ _indices_history = [k \in {"VNINDEX"} |-> 1]
               /\ heap = [o \in {1} |-> [i \in 1.._HISTORY_SIZE |-> 1200]]
               /\ _refresh_thread_started = FALSE
               /\ _indices_thread_started = TRUE
               /\ _indices_ws_thread_started = TRUE
               /\ poll = [pc |-> "check", timer |-> 0]
               /\ ws = [pc |-> "wait"]
               /\ bulk = [pc |-> "off", results |-> NoResults, before |-> <<>>]
               /\ spawned = [refresh |-> 0, indices |-> 1, ws |-> 1]
               /\ written_by = [cache |-> "rest", stamp |-> "rest", source |-> "rest"]
               /\ boot_yield = "records"
          ELSE /\ _indices_cache = <<>>
               /\ indices_stamped = FALSE
               /\ indices_age = StaleAge
               /\ _indices_source = "EMPTY"
               /\ _indices_history = <<>>
               /\ heap = <<>>
               /\ _refresh_thread_started = TRUE
               /\ _indices_thread_started = FALSE
               /\ _indices_ws_thread_started = FALSE
               /\ poll = [pc |-> "off", timer |-> 0]
               /\ ws = [pc |-> "off"]
               /\ bulk = [pc |-> "run", results |-> NoResults, before |-> <<>>]
               /\ spawned = [refresh |-> 1, indices |-> 0, ws |-> 0]
               /\ written_by = [cache |-> "none", stamp |-> "none", source |-> "none"]
               /\ boot_yield = "pending"

\* the statements of _indices_refresh_loop
PollLoop ==
    \/ PollCheck
    \/ PollCheck2
    \/ PollFetch(LiveWindow)
    \/ PollResponse(LiveRest)
    \/ PollUpdated
    \/ PollWake

\* the statements of _background_refresh_loop
BulkLoop ==
    \/ BulkStart(LiveWindow)
    \/ \E g \in GroupNames : GroupFetch(g, PollGroupOutcomes(g))
    \/ BulkPublish
    \/ BulkWake

NextLive ==
    \/ PollLoop
    \/ BulkLoop
    \/ UpdateStep("rest")
    \/ UpdateStep("push")
    \/ PushMessage(LivePush, LiveWindow)
    \/ Tick
    \/ Forget

\* Fairness: every thread that can run is scheduled again (the loops and the
\* update calls they and the listener make), a request ends (the REST calls
\* have timeouts), the clock goes on. Push messages come as the vendor pleases:
\* no fairness
FairLive ==
    /\ WF_vars(PollLoop)
    /\ WF_vars(BulkLoop)
    /\ WF_vars(UpdateStep("rest"))
    /\ WF_vars(UpdateStep("push"))
    /\ WF_vars(Tick)
    /\ WF_vars(Forget)

SpecLive == InitLive /\ [][NextLive]_vars /\ FairLive

\* The socket listener in the long run. ensure_indices_refresh has just returned:
\* the bootstrap fetch has stored VNINDEX at 1200, both index threads are
\* started and the listener thread has not run yet. The poll loop is left out;
\* the vendor pushes VNINDEX at 1200 whenever it pleases, the messages counted
\* within a window
InitListen ==
    /\ socketio = TRUE
    /\ _price_cache = <<>>
    /\ _indices_cache = _extract_index_items_from_payload(PayA)
    /\ indices_stamped = TRUE
    /\ indices_age = 0
    /\ _indices_source = "REST"
    /\ _indices_history = [k \in {"VNINDEX"} |-> 1]
    /\ heap = [o \in {1} |-> <<1200>>]
    /\ _refresh_thread_started = FALSE
    /\ _indices_thread_started = TRUE
    /\ _indices_ws_thread_started = TRUE
    /\ _lock = 0
    /\ caller = [c \in Callers |-> NoView]
    /\ wr = [w \in Writers |-> IdleFrame]
    /\ poll = [pc |-> "check", timer |-> 0]
    /\ ws = [pc |-> "entry"]
    /\ bulk = [pc |-> "off", results |-> NoResults, before |-> <<>>]
    /\ spawned = [refresh |-> 0, indices |-> 1, ws |-> 1]
    /\ written_by = [cache |-> "boot", stamp |-> "boot", source |-> "boot"]
    /\ rest_fetches = 0
    /\ push_msgs = 0
    /\ bulk_cycles = 0
    /\ boot_yield = "records"
    /\ last_call = [n |-> 0, items |-> <<>>, source |-> ""]

\* the statements of _indices_ws_loop that end by themselves: the library test,
\* sio.connect (wait_timeout=8), time.sleep(2), the finally clause
WsLoop ==
    \/ WsEntry
    \/ WsConnect
    \/ WsReconnect
    \/ WsWake

NextListen ==
    \/ WsLoop
    \/ WsWaitEnds
    \/ PushMessage(LivePush, LiveWindow)
    \/ UpdateStep("push")
    \/ Tick
    \/ Forget

\* Fairness: the listener thread is scheduled again, sio.connect and the sleep
\* end, the handler's update call runs on, the clock goes on. A connection may
\* last for ever and push messages come as the vendor pleases: no fairness for
\* the end of sio.wait() nor for a message
FairListen ==
    /\ WF_vars(WsLoop)
    /\ WF_vars(UpdateStep("push"))
    /\ WF_vars(Tick)
    /\ WF_vars(Forget)

SpecListen == InitListen /\ [][NextListen]_vars /\ FairListen

\* Both background channels from process start, in a build with the socket
\* library: any number of request threads read the indices, one of them also
\* goes through the price guard. The REST index fetch answers 500 or the VNINDEX
\* record, the group fetches give nothing, the listener thread stays silent
FlightRest == {Status(500), Ok(PayA)}

InitFlight == Init /\ socketio

NextFlight ==
    \/ \E c \in Callers : IndicesCall(c, FlightRest)
    \/ RefreshCall(1)
    \/ UpdateStep("boot")
    \/ UpdateStep("rest")
    \/ PollCheck
    \/ PollCheck2
    \/ PollFetch(MaxRestFetches)
    \/ PollResponse(FlightRest)
    \/ PollUpdated
    \/ PollWake
    \/ BulkStart(MaxBulkCycles)
    \/ \E g \in GroupNames : GroupFetch(g, HotEmpty)
    \/ BulkPublish
    \/ BulkWake
    \/ Tick

SpecFlight == InitFlight /\ [][NextFlight]_vars

\* The REST poll loop alone in the long run: the state is the one in which
\* ensure_indices_refresh returns, the listener never delivers anything, and
\* every REST request is answered with the VNINDEX record
WarmRest == {Ok(PayA)}

\* the statements of _indices_refresh_loop, every fetch answered
WarmLoop ==
    \/ PollCheck
    \/ PollCheck2
    \/ PollFetch(LiveWindow)
    \/ PollResponse(WarmRest)
    \/ PollUpdated
    \/ PollWake

NextWarm ==
    \/ WarmLoop
    \/ UpdateStep("rest")
    \/ Tick
    \/ Forget

\* Fairness: the loop thread is scheduled again, the request is answered (the
\* timeout of 3 s), the clock goes on
FairWarm ==
    /\ WF_vars(WarmLoop)
    /\ WF_vars(UpdateStep("rest"))
    /\ WF_vars(Tick)
    /\ WF_vars(Forget)

SpecWarm == InitListen /\ [][NextWarm]_vars /\ FairWarm

\* The lifecycle guards in the long run: any number of request threads call
\* get_cached_indices and ensure_background_refresh again and again; the
\* bootstrap fetch raises or brings the VNINDEX record
NextGuard ==
    \/ \E c \in Callers : IndicesCall(c, HotRest)
    \/ \E c \in Callers : RefreshCall(c)
    \/ UpdateStep("boot")

\* a request thread inside a call takes its next step
InCall(c) ==
    /\ caller[c].pc # "idle"
    /\ IndicesCall(c, HotRest) \/ RefreshCall(c)

\* Fairness: a request thread inside a call is scheduled again, the bootstrap
\* request ends (timeout=3); nothing obliges a thread to make a further call
FairGuard ==
    /\ \A c \in Callers : WF_vars(InCall(c))
    /\ WF_vars(UpdateStep("boot"))

SpecGuard == Init /\ [][NextGuard]_vars /\ FairGuard

\* _extract_index_items_from_payload called by itself, as a unit test does, on
\* payloads built from index records in three shapes: a flat list; a record
\* that carries further records under its data and result keys; a wrapper that
\* is no record, with a record under result and a list under data. Each input
\* goes with its records in traversal order (occ)
DedupRecords ==
    {Dict([symbol |-> Str("VNINDEX"), price |-> Num(1)]),
     Dict([symbol |-> Str("VNINDEX"), price |-> Num(2)]),
     Dict([s |-> Str("vnindex"), c |-> Num(3)]),
     Dict([symbol |-> Str("VN30"), price |-> Num(1)]),
     Dict([symbol |-> Str("FOOBAR"), price |-> Num(7)])}
FlatList(a, b, c) == [payload |-> List(<<a, b, c>>), occ |-> <<a, b, c>>]
NestedRecord(a, b, c) ==
    LET outer == Dict(MapUpdate(a.v, [data |-> List(<<b>>), result |-> c]))
    IN [payload |-> outer, occ |-> <<outer, b, c>>]
Wrapper(a, b) == [payload |-> Dict([result |-> a, data |-> List(<<b>>)]), occ |-> <<b, a>>]
DedupInputs ==
    {FlatList(a, b, c) : a \in DedupRecords, b \in DedupRecords, c \in DedupRecords}
    \cup {NestedRecord(a, b, c) : a \in DedupRecords, b \in DedupRecords, c \in DedupRecords}
    \cup {Wrapper(a, b) : a \in DedupRecords, b \in DedupRecords}

ExtractCall(maxd) ==
    /\ last_call.n < maxd
    /\ \E in \in DedupInputs :
          last_call' = [n |-> last_call.n + 1,
                        items |-> _extract_index_items_from_payload(in.payload),
                        source |-> "",
                        payload |-> in.payload,
                        occ |-> in.occ]
    /\ UNCHANGED <<socketio, _price_cache, index_vars, flag_vars, _lock, caller, wr, poll,
                   ws, bulk, spawned, count_vars>>

\* How many direct calls a behaviour makes
MaxExtractCalls == 1

NextExtract == ExtractCall(MaxExtractCalls)

SpecExtract == Init /\ [][NextExtract]_vars

\* Two writers of one history buffer. The index threads have been up for a
\* while: earlier REST updates at 1199 have filled the buffer of VNINDEX to 29 or
\* 30 entries, the snapshot is stale, the listener is connected. Now the poll
\* loop fetches VNINDEX at 1200 and the vendor pushes VNINDEX at 1205
PayOld == List(<<Dict([symbol |-> Str("VNINDEX"), price |-> Num(1199)])>>)
RaceRest == {Ok(PayA)}
RacePush == {PayB}
RaceUpdates == 1
RaceFill == {_HISTORY_SIZE - 1, _HISTORY_SIZE}

InitRace ==
    /\ socketio = TRUE
    /\ _price_cache = <<>>
    /\ _indices_cache = _extract_index_items_from_payload(PayOld)
    /\ indices_stamped = TRUE
    /\ indices_age = StaleAge
    /\ _indices_source = "REST"
    /\ _indices_history = [k \in {"VNINDEX"} |-> 1]
    /\ \E n \in RaceFill : heap = [o \in {1} |-> [i \in 1..n |-> 1199]]
    /\ _refresh_thread_started = FALSE
    /\ _indices_thread_started = TRUE
    /\ _indices_ws_thread_started = TRUE
    /\ _lock = 0
    /\ caller = [c \in Callers |-> NoView]
    /\ wr = [w \in Writers |-> IdleFrame]
    /\ poll = [pc |-> "check", timer |-> 0]
    /\ ws = [pc |-> "wait"]
    /\ bulk = [pc |-> "off", results |-> NoResults, before |-> <<>>]
    /\ spawned = [refresh |-> 0, indices |-> 1, ws |-> 1]
    /\ written_by = [cache |-> "rest", stamp |-> "rest", source |-> "rest"]
    /\ rest_fetches = 0
    /\ push_msgs = 0
    /\ bulk_cycles = 0
    /\ boot_yield = "records"
    /\ last_call = [n |-> 0, items |-> <<>>, source |-> ""]

NextRace ==
    \/ PollCheck
    \/ PollCheck2
    \/ PollFetch(RaceUpdates)
    \/ PollResponse(RaceRest)
    \/ PollUpdated
    \/ PollWake
    \/ UpdateStep("rest")
    \/ UpdateStep("push")
    \/ PushMessage(RacePush, RaceUpdates)
    \/ Tick

SpecRace == InitRace /\ [][NextRace]_vars

\* The feeds with records that carry no usable price: the vendor answers the REST
\* request with a VN30 record without any price key and pushes an hnx30 record
\* whose close is the text "N/A"
PayNoPrice == List(<<Dict([symbol |-> Str("VN30"), refPrice |-> Num(1200)])>>)
PayTextPrice == Dict([data |-> List(<<Dict([s |-> Str("hnx30"), c |-> Str("N/A")])>>)])
FeedRest == {Status(500), Ok(PayNoPrice)}
FeedPush == {PayTextPrice}

NextFeed ==
    \/ IndicesCall(1, FeedRest)
    \/ UpdateStep("boot")
    \/ UpdateStep("rest")
    \/ UpdateStep("push")
    \/ PollCheck
    \/ PollCheck2
    \/ PollFetch(MaxRestFetches)
    \/ PollResponse(FeedRest)
    \/ PollUpdated
    \/ PollWake
    \/ WsEntry
    \/ WsConnect
    \/ WsWaitEnds
    \/ WsReconnect
    \/ PushMessage(FeedPush, MaxPushMsgs)
    \/ WsWake
    \/ Tick

SpecFeed == Init /\ [][NextFeed]_vars

\* Field coercion: the bulk loop has published one record for VNM and sleeps; a
\* request thread asks for VNM (cached) or FPT (fetched directly)
Absent == [t |-> "absent"]
Present(k, v) == IF v = Absent THEN <<>> ELSE [x \in {k} |-> v]
BoardRecord(sym, c, ref, op, full) ==
    Dict(MapUpdate([s |-> Str(sym)],
         MapUpdate(Present("c", c),
         MapUpdate(Present("ref", ref),
         MapUpdate(Present("op", op),
                   IF full THEN [cei |-> Num(850), flo |-> None, h |-> Str("80"),
                                 l |-> Num(0), vo |-> Num(1000)]
                   ELSE <<>>)))))
CloseValues == {Absent, None, Num(0), Num(800)}
RefValues == {Absent, None, Num(0), Num(790)}
OpenValues == {Absent, None, Num(780)}
BoardRecords(sym) ==
    {BoardRecord(sym, c, ref, op, full) :
        c \in CloseValues,
        ref \in RefValues,
        op \in OpenValues,
        full \in BOOLEAN}
CoerceOutcomes == {Ok(List(<<r>>)) : r \in BoardRecords("FPT")}

InitCoerce ==
    /\ socketio \in BOOLEAN
    /\ \E r \in BoardRecords("VNM") : _price_cache = [k \in {"VNM"} |-> r.v]
    /\ _indices_cache = <<>>
    /\ indices_stamped = FALSE
    /\ indices_age = StaleAge
    /\ _indices_source = "EMPTY"
    /\ _indices_history = <<>>
    /\ heap = <<>>
    /\ _refresh_thread_started = TRUE
    /\ _indices_thread_started = FALSE
    /\ _indices_ws_thread_started = FALSE
    /\ _lock = 0
    /\ caller = [c \in Callers |-> NoView]
    /\ wr = [w \in Writers |-> IdleFrame]
    /\ poll = [pc |-> "off", timer |-> 0]
    /\ ws = [pc |-> "off"]
    /\ bulk = [pc |-> "sleep", before |-> <<>>,
               results |-> [g \in GroupNames |->
                               [done |-> TRUE,
                                map |-> IF g = "HOSE" THEN _price_cache ELSE <<>>]]]
    /\ spawned = [refresh |-> 1, indices |-> 0, ws |-> 0]
    /\ written_by = [cache |-> "none", stamp |-> "none", source |-> "none"]
    /\ rest_fetches = 0
    /\ push_msgs = 0
    /\ bulk_cycles = 1
    /\ boot_yield = "pending"
    /\ last_call = [n |-> 0, items |-> <<>>, source |-> ""]

CoerceSymbols == {"vnm", "fpt"}

NextCoerce ==
    \/ EnsureRefreshCheck(1)
    \/ PriceCall(1, CoerceSymbols, CoerceOutcomes)

SpecCoerce == InitCoerce /\ [][NextCoerce]_vars

\* ========================================================================
\* Claims
\* ========================================================================

\* C1 (SpecStart). At-most-one-start: whatever the interleaving of the request
\* threads in ensure_indices_refresh and ensure_background_refresh, each of the
\* three background threads is started at most once, and exactly once by the
\* time a call of its guard has returned (the push listener only when the
\* socket library is there, and never without it).
ReturnsFromIndices(c) ==
    /\ caller[c].pc \in {"idle", "ei_release"}
    /\ caller'[c].pc = "gi_read"
ReturnsFromRefresh(c) ==
    /\ caller[c].pc \in {"eb_check", "eb_release"}
    /\ caller'[c].pc \in {"idle", "pd_lookup"}
C1_AtMostOneStart ==
    /\ [](/\ spawned.refresh <= 1
          /\ spawned.indices <= 1
          /\ spawned.ws <= (IF socketio THEN 1 ELSE 0))
    /\ [][\A c \in Callers :
             /\ ReturnsFromIndices(c) =>
                   spawned'.indices = 1 /\ spawned'.ws = (IF socketio THEN 1 ELSE 0)
             /\ ReturnsFromRefresh(c) => spawned'.refresh = 1]_vars

\* Two overlapping calls of ensure_indices_refresh: the second passed the outer
\* test before the first had set the flag and still waits for the lock when the
\* first has returned; the price guard has started its thread as well
C1_Witness ==
    /\ socketio
    /\ caller[1].pc = "gi_read"
    /\ caller[2].pc = "ei_lock"
    /\ _indices_thread_started
    /\ _lock = 0
    /\ spawned = [refresh |-> 1, indices |-> 1, ws |-> 1]

\* C2 (SpecUpdate). Empty-update-is-no-op: a call of _update_indices_cache with
\* an empty list, whatever its source argument and the state it meets, returns
\* having changed neither the snapshot, the timestamp, the source tag nor any
\* history buffer.
EmptyCall ==
    /\ last_call'.n = last_call.n + 1
    /\ last_call'.items = <<>>
C2_EmptyUpdateNoOp ==
    [][EmptyCall =>
          /\ UNCHANGED <<_indices_cache, indices_stamped, indices_age, _indices_source,
                         _indices_history, heap>>
          /\ wr'["direct"].pc = "idle"]_vars

\* An empty update tagged SOCKET_IO has met a snapshot written by REST
C2_Witness ==
    /\ last_call.n > 1
    /\ last_call.items = <<>>
    /\ last_call.source = "SOCKET_IO"
    /\ wr["direct"].pc = "idle"
    /\ _indices_cache # <<>>
    /\ _indices_source = "REST"
    /\ indices_stamped
    /\ DOMAIN _indices_history # {}

\* C3 (SpecPrice). Atomic group merge: when an update_bulk_cache cycle in which
\* some group returned a non-empty mapping is over, the Price Cache holds exactly
\* the symbols that the three mappings of this cycle hold, each with the record a
\* mapping of this cycle gives it: a group that returned nothing neither adds nor
\* blocks anything, and nothing of the previous cache is left unless fetched again.
CycleOver == bulk.pc = "sleep" /\ bulk_cycles > 0
C3_AtomicGroupMerge ==
    (CycleOver /\ \E g \in GroupNames : bulk.results[g].map # <<>>) =>
        /\ DOMAIN _price_cache = UNION {DOMAIN bulk.results[g].map : g \in GroupNames}
        /\ \A k \in DOMAIN _price_cache :
              \E g \in GroupNames :
                 /\ k \in DOMAIN bulk.results[g].map
                 /\ _price_cache[k] = bulk.results[g].map[k]

\* The second cycle: HOSE gave VNM alone, HNX failed, UPCOM gave BSR; FPT, which
\* the first cycle had published, is gone
C3_Witness ==
    /\ CycleOver
    /\ bulk_cycles = 2
    /\ "FPT" \in DOMAIN bulk.before
    /\ DOMAIN bulk.results["HOSE"].map = {"VNM"}
    /\ bulk.results["HNX"].map = <<>>
    /\ DOMAIN bulk.results["UPCOM"].map = {"BSR"}
    /\ "VNM" \in DOMAIN _price_cache
    /\ "BSR" \in DOMAIN _price_cache
    /\ "FPT" \notin DOMAIN _price_cache

\* C4 (SpecPolls). Total failure retains previous state: a bulk cycle whose three
\* group fetches all gave an empty mapping leaves the Price Cache what it was
\* before the cycle; and a REST index fetch, of the poll loop or of the bootstrap,
\* that raises, answers with a status other than 200 or yields no allow-listed
\* record starts no update and leaves snapshot, timestamp, tag and history alone.
FetchFails(o) == _fetch_indices_rest(o).raised \/ _fetch_indices_rest(o).items = <<>>
IndexStateKept ==
    /\ UNCHANGED <<_indices_cache, indices_stamped, indices_age, _indices_source,
                   _indices_history, heap>>
    /\ wr' = wr
C4_TotalFailureRetains ==
    /\ []((CycleOver /\ \A g \in GroupNames : bulk.results[g].map = <<>>) =>
             _price_cache = bulk.before)
    /\ [][(poll.pc = "wait" /\ poll'.pc # "wait") =>
             \A o \in PollRestOutcomes :
                (FetchFails(o) /\ PollResponse({o})) =>
                   IndexStateKept /\ poll'.pc = "sleep3"]_vars
    /\ [][\A c \in Callers :
             (caller[c].pc = "ei_wait" /\ caller'[c].pc # "ei_wait") =>
                \A o \in PollRestOutcomes :
                   (FetchFails(o) /\ BootResponse(c, {o})) =>
                      IndexStateKept /\ caller'[c].pc = "ei_ws"]_vars

\* A cycle with three failures has met a cache that holds VNM, and a failed poll
\* fetch has met a snapshot the bootstrap had written
C4_Witness ==
    /\ CycleOver
    /\ bulk_cycles = 2
    /\ \A g \in GroupNames : bulk.results[g].map = <<>>
    /\ DOMAIN _price_cache = {"VNM"}
    /\ poll.pc = "sleep3"
    /\ rest_fetches = 2
    /\ written_by.cache = "boot"
    /\ wr["boot"].pc = "idle"
    /\ _indices_cache # <<>>

\* C5 (SpecSeq). History cap invariant: in every reachable state, the states
\* between the statements of one update included, every list that
\* get_indices_history can return has at most 30 entries.
\* TLC refutes it: once a buffer holds 30 entries, history.append(fv) makes the
\* list that _indices_history refers to 31 long, and it stays so until the
\* assignment of the 30-entry slice.
C5_HistoryCap ==
    \A k \in DOMAIN _indices_history : Len(heap[_indices_history[k]]) <= _HISTORY_SIZE

\* The state a reader can meet: the buffer of VNINDEX is 31 long while the update
\* stands between the append and the length test
C5_Exceeded ==
    /\ wr["rest"].pc = "h_check"
    /\ Len(heap[_indices_history["VNINDEX"]]) = _HISTORY_SIZE + 1

\* C6 (SpecSeq). History content: after N > 30 sequential non-empty updates (one
\* writer at a time) that all carry VNINDEX, the k-th with price k, the buffer of
\* VNINDEX is the last 30 prices N-29, ..., N in arrival order, oldest first.
NoUpdateUnderWay ==
    /\ \A w \in Writers : wr[w].pc = "idle"
    /\ poll.pc \notin {"wait", "update"}
    /\ \A c \in Callers : caller[c].pc \notin {"ei_wait", "ei_update"}
C6_HistoryContent ==
    (NoUpdateUnderWay /\ rest_fetches > _HISTORY_SIZE) =>
        /\ "VNINDEX" \in DOMAIN _indices_history
        /\ heap[_indices_history["VNINDEX"]] =
              [i \in 1.._HISTORY_SIZE |-> rest_fetches - _HISTORY_SIZE + i]

\* 32 updates are done: the two oldest prices have been dropped
C6_Witness ==
    /\ NoUpdateUnderWay
    /\ rest_fetches = _HISTORY_SIZE + 2
    /\ Len(heap[_indices_history["VNINDEX"]]) = _HISTORY_SIZE
    /\ heap[_indices_history["VNINDEX"]][1] = 3
    /\ heap[_indices_history["VNINDEX"]][_HISTORY_SIZE] = rest_fetches

\* C7 (Spec). Allow-list filtering: in every reachable state every record of the
\* index snapshot, every key of the history buffers and every item an update was
\* called with has a symbol that matches one of the five index codes whatever the
\* case; a record for FOOBAR, at the top of a payload or nested in it, over REST
\* or over the socket, yields no item.
KnownPayloads == {PayA, PayB, PayC, PayD, Str("ping")}
MatchesAllowList(sym) ==
    \E i \in 1..Len(INDEX_SYMBOLS) : Upper(sym) = Upper(INDEX_SYMBOLS[i])
AllAllowed(items) ==
    \A i \in 1..Len(items) :
       /\ Get(items[i].v, "symbol").t = "str"
       /\ MatchesAllowList(Get(items[i].v, "symbol").v)
KnownPayloadsFiltered ==
    \A p \in KnownPayloads : AllAllowed(_extract_index_items_from_payload(p))
C7_AllowList ==
    /\ AllAllowed(_indices_cache)
    /\ \A k \in DOMAIN _indices_history : MatchesAllowList(k)
    /\ \A w \in Writers : AllAllowed(wr[w].items)
    /\ KnownPayloadsFiltered

\* The push payload with vnindex and FOOBAR side by side has been stored: the
\* snapshot is the one record for VNINDEX; a REST answer has been taken in too
C7_Witness ==
    /\ written_by.cache = "push"
    /\ wr["push"].pc = "idle"
    /\ Len(_indices_cache) = 1
    /\ Get(_indices_cache[1].v, "symbol") = Str("VNINDEX")
    /\ Get(_indices_cache[1].v, "price") = Num(1205)
    /\ DOMAIN _indices_history = {"VNINDEX"}
    /\ Len(heap[_indices_history["VNINDEX"]]) = 2

\* C8 (Spec). Index cache update is atomic for readers and for the other writer:
\* whenever get_cached_indices can return, the tag and the timestamp were written
\* by the update that wrote the snapshot; a non-empty snapshot never goes with the
\* tag EMPTY.
\* TLC refutes it: the three fields are assigned one after the other without a
\* lock, so a reader sees the new snapshot with the old tag, and two interleaved
\* updates leave the snapshot of one with the tag of the other.
C8_AtomicIndexUpdate ==
    _indices_thread_started =>
        /\ _indices_cache # <<>> => _indices_source # "EMPTY"
        /\ written_by.stamp = written_by.cache
        /\ written_by.source = written_by.cache

\* Both updates are over: the snapshot is the push's (1205), the tag says REST
C8_Torn ==
    /\ _indices_thread_started
    /\ \A w \in Writers : wr[w].pc = "idle"
    /\ written_by.cache = "push"
    /\ written_by.source = "rest"
    /\ Get(_indices_cache[1].v, "price") = Num(1205)
    /\ _indices_source = "REST"

\* C9 (Spec). Freshness skip: when the poll loop compares the age of the last
\* update, REST or push, with 2.5 s and finds it below, it goes to its one-second
\* sleep: the iteration issues no REST fetch, starts no update and leaves
\* snapshot, timestamp and tag as they are. So after REST 1200 at t=0 and push
\* 1205 at t=1 the check at t=3 skips the fetch and the snapshot read is still
\* 1205 with the tag of the push.
FreshAtCheck == poll.pc = "check2" /\ 2 * indices_age < 5
C9_FreshnessSkip ==
    /\ [][(FreshAtCheck /\ poll' # poll) =>
             /\ poll'.pc = "sleep1"
             /\ rest_fetches' = rest_fetches
             /\ wr' = wr
             /\ UNCHANGED <<_indices_cache, indices_stamped, indices_age,
                            _indices_source>>]_vars
    /\ [][(poll.pc = "sleep1" /\ poll'.pc # "sleep1") =>
             poll'.pc = "check" /\ rest_fetches' = rest_fetches]_vars

\* Scenario 3: the snapshot 1200 came over REST, the push 1205 came two seconds
\* ago, the loop has just skipped its fetch (one fetch so far: the first one)
C9_Witness ==
    /\ poll = [pc |-> "sleep1", timer |-> SleepFresh]
    /\ indices_age = 2
    /\ rest_fetches = 1
    /\ \A w \in Writers : wr[w].pc = "idle"
    /\ heap[_indices_history["VNINDEX"]] = <<1200, 1205>>
    /\ Get(_indices_cache[1].v, "price") = Num(1205)
    /\ _indices_source = "SOCKET_IO"
    /\ caller[1].pc = "gi_read"

\* C10 (SpecCoerce). Numeric coercion defaults, as the code has them: for a
\* record whose fields are numbers, numeric strings, null or missing, on both
\* paths of get_price_detail: if c is missing, null or zero and ref is a non-zero
\* number, the price is ref; if c and ref are both missing, null or zero, the
\* price is 0.0 on the direct path, and on the cache-hit path it is op, or 0.0
\* when op too is missing, null or zero; every numeric field the result carries
\* is a number, never null; the cache-hit result carries all nine numeric fields,
\* the direct result price, ref_price and open only.
NumericFields == {"price", "ref_price", "ceiling", "floor", "open", "high", "low",
                  "volume", "value"}
DirectFields == {"price", "ref_price", "open"}
Answered(c) == caller[c].pc = "pd_done" /\ caller[c].item # None
Field(c, k) == Get(caller[c].item.v, k)
Blank(v) == v = None \/ v = Num(0)
Result(c) == caller[c].ret.v
FromCache(c) == Result(c)["source"] = Str("VCI_RAM")
Raises(c) ==
    \/ At(c, "pd_done") /\ caller[c].ret = Exc
    \/ At(c, "gp_done") /\ caller[c].price = Exc
    \/ At(c, "mp_done") /\ caller[c].price = Exc

\* C11: no accessor call ends in an exception
C11_NeverRaises == \A c \in Callers : ~Raises(c)

\* get_multiple_prices ends in the ValueError of float("N/A") on the cached VNM
C11_Raised ==
    /\ At(1, "mp_done")
    /\ caller[1].price = Exc
    /\ caller[1].item = VNMText
    /\ "VNM" \in DOMAIN _price_cache

\* ------------------------------------------------------------------------
\* C12: on a cache miss get_price_detail makes exactly one direct request; a
\* fetched {s: FPT, c: 105.5, ref: 105.0} comes back as symbol FPT, price 105.5,
\* ref_price 105.0, source VCI_DIRECT; the price cache is written by the bulk
\* update only, never by an accessor
\* ------------------------------------------------------------------------
FromDirect(d) == d = None \/ (d.t = "dict" /\ d.v["source"] = Str("VCI_DIRECT"))

OneShot(c) ==
    At(c, "pd_done") =>
       /\ caller[c].direct = (IF FromDirect(caller[c].ret) THEN 1 ELSE 0)
       /\ (caller[c].direct = 1 /\ caller[c].item = FPT) =>
             /\ caller[c].ret.t = "dict"
             /\ caller[c].ret.v["symbol"] = Str("FPT")
             /\ caller[c].ret.v["price"] = Num(1055)
             /\ caller[c].ret.v["ref_price"] = Num(1050)
             /\ caller[c].ret.v["source"] = Str("VCI_DIRECT")

\* the statement that replaces the cache is the one of update_bulk_cache
CacheWrittenByBulkOnly ==
    _price_cache' # _price_cache => bulk.pc = "fetch" /\ bulk'.pc = "sleep"

\* C12: one direct request per miss, its record returned as VCI_DIRECT, and
\* the cache changed by no accessor step
C12_MissFallback ==
    /\ [](\A c \in Callers : OneShot(c))
    /\ [][CacheWrittenByBulkOnly]_vars

\* get_price_detail("FPT") answered from the direct request while the cache,
\* filled by the bulk update, still has no FPT
C12_Witness ==
    /\ At(1, "pd_done")
    /\ caller[1].sym = "FPT"
    /\ caller[1].direct = 1
    /\ caller[1].item = FPT
    /\ FromDirect(caller[1].ret) /\ caller[1].ret # None
    /\ _price_cache # <<>>
    /\ "FPT" \notin DOMAIN _price_cache

\* ------------------------------------------------------------------------
\* C13: the mapping get_multiple_prices returns has a key, the upper-cased
\* symbol, for exactly the input symbols for which get_price gave a price, with
\* that price as its value; the other symbols have no key
\* ------------------------------------------------------------------------
Returned(c) == At(c, "mp_done") /\ caller[c].price # Exc

\* the last answer of get_price for key k among the answers that satisfy Kept
LastKept(got, k, Kept(_)) ==
    LET I == {i \in 1..Len(got) : got[i].sym = k /\ Kept(got[i].price)}
    IN got[CHOOSE i \in I : \A j \in I : j <= i].price

MappingIs(c, Kept(_)) ==
    LET got == caller[c].got
        results == caller[c].results
    IN /\ DOMAIN results = {got[i].sym : i \in {j \in 1..Len(got) : Kept(got[j].price)}}
       /\ \A k \in DOMAIN results : results[k] = LastKept(got, k, Kept)

IsPrice(v) == v # None
NonZeroPrice(v) == v # None /\ v # Num(0)

\* C13: the keys are the symbols whose get_price answer is a price other than
\* 0.0 (None and 0.0 are left out), each with that answer as its value
C13_MultiplePrices == \A c \in Callers : Returned(c) => MappingIs(c, NonZeroPrice)

\* C13 as stated: the keys are the symbols whose get_price answer is not None
C13_AsStated == \A c \in Callers : Returned(c) => MappingIs(c, IsPrice)

\* get_multiple_prices(["shs", "fpt", "vnm"]) has returned {VNM: 80.0} after
\* get_price gave 0.0 for SHS
C13_Witness ==
    /\ Returned(1)
    /\ Len(caller[1].got) = 3
    /\ caller[1].got[1] = [sym |-> "SHS", price |-> Num(0)]
    /\ caller[1].got[3] = [sym |-> "VNM", price |-> Num(800)]
    /\ "VNM" \in DOMAIN caller[1].results
    /\ "SHS" \notin DOMAIN caller[1].results

\* ------------------------------------------------------------------------
\* C14: whatever the interleaving of the callers, the blocking first index
\* fetch is issued once; no call of ensure_indices_refresh / get_cached_indices
\* returns before it is over; and when it gave a record no get_cached_indices
\* returns an empty snapshot
\* ------------------------------------------------------------------------
BootCompleted ==
    /\ rest_fetches = 1
    /\ boot_yield # "pending"
    /\ wr["boot"].pc = "idle"
    /\ \A d \in Callers : caller[d].pc \notin {"ei_fetch", "ei_wait", "ei_update"}

\* get_cached_indices returns cls._indices_cache
ReturnsSnapshot(c) == caller[c].pc = "gi_read" /\ caller'[c].pc = "idle"

\* C14: one bootstrap fetch, completed before any return, its records in every
\* snapshot returned
C14_Bootstrap ==
    /\ [](rest_fetches <= 1)
    /\ [][\A c \in Callers :
             /\ ReturnsFromIndices(c) => BootCompleted'
             /\ ReturnsSnapshot(c) =>
                   /\ BootCompleted
                   /\ boot_yield = "records" => _indices_cache # <<>>]_vars

\* the first caller has bootstrapped with a record and returned; the second,
\* which passed the outer test before the flag was set, still waits for the lock
C14_Witness ==
    /\ caller[1].pc = "idle"
    /\ caller[2].pc = "ei_lock"
    /\ _indices_thread_started
    /\ _lock = 0
    /\ BootCompleted
    /\ boot_yield = "records"
    /\ _indices_cache # <<>>

\* ------------------------------------------------------------------------
\* C15: with the started flag set a read takes no lock and makes no request:
\* the index getters hand out what is in memory, get_price_detail / get_price
\* of a cached symbol answer from the cached record (source VCI_RAM); after a
\* bulk update in which HOSE gave {s: VNM, c: 80.0, ref: 79.0}, get_price(VNM)
\* is 80.0
\* ------------------------------------------------------------------------
NoLockNoRequest(c) ==
    /\ _lock' = _lock
    /\ rest_fetches' = rest_fetches
    /\ caller'[c].direct = caller[c].direct

HotIndexRead(c) ==
    /\ (At(c, "idle") /\ caller'[c].pc \in {"gi_read", "ei_lock"} /\ _indices_thread_started)
          => caller'[c].pc = "gi_read" /\ NoLockNoRequest(c)
    /\ ReturnsSnapshot(c) => NoLockNoRequest(c) /\ UNCHANGED index_vars
    /\ (At(c, "idle") /\ caller'[c].pc = "idle" /\ caller'[c] # caller[c])
          => /\ caller'[c].op \in IndexGetters
             /\ NoLockNoRequest(c)
             /\ UNCHANGED index_vars
             /\ caller'[c].ret = getter_value(caller'[c].op)

HotPriceRead(c) ==
    /\ (At(c, "eb_check") /\ caller'[c] # caller[c] /\ _refresh_thread_started)
          => caller'[c].pc = AfterRefresh(c) /\ NoLockNoRequest(c)
    /\ (At(c, "pd_lookup") /\ caller'[c] # caller[c] /\ caller[c].sym \in DOMAIN _price_cache)
          => /\ caller'[c].pc = "pd_done"
             /\ caller'[c].ret = hit_detail(_price_cache[caller[c].sym])
             /\ caller'[c].ret.v["source"] = Str("VCI_RAM")
             /\ NoLockNoRequest(c)

VNMAnswered(c) ==
    (At(c, "gp_done") /\ caller[c].sym = "VNM" /\ caller[c].item = VNM800)
       => caller[c].price = Num(800) /\ caller[c].direct = 0

\* C15: the hot reads take no lock and make no request, and answer from memory
C15_HotReadPath ==
    /\ [](\A c \in Callers : VNMAnswered(c))
    /\ [][\A c \in Callers : HotIndexRead(c) /\ HotPriceRead(c)]_vars

\* get_price("vnm") answered 80.0 from the cache after the bulk update, with the
\* index side started as well
C15_Witness ==
    /\ At(1, "gp_done")
    /\ caller[1].sym = "VNM"
    /\ caller[1].price = Num(800)
    /\ caller[1].direct = 0
    /\ caller[1].ret.v["source"] = Str("VCI_RAM")
    /\ _refresh_thread_started /\ _indices_thread_started
    /\ _lock = 0

\* ------------------------------------------------------------------------
\* C16: neither poll loop ends: an exception in an iteration is caught in the
\* loop and the next iteration runs after the sleep; under fairness each loop
\* attempts a refresh again and again
\* ------------------------------------------------------------------------
PollRuns == poll.pc # "off"
BulkRuns == bulk.pc # "off"

\* the index iteration either sent the REST request or found the snapshot fresh
IterationDecided == poll.pc \in {"wait", "sleep1"}

\* C16: a started loop stays started; the price loop calls update_bulk_cache
\* again and again; the index loop begins an iteration again and again, and each
\* iteration sends the REST request or skips it on a fresh snapshot
C16_LoopsGoOn ==
    /\ [][(PollRuns => PollRuns') /\ (BulkRuns => BulkRuns')]_vars
    /\ [](poll.pc = "wait" => wr["rest"].pc = "idle")
    /\ (BulkRuns /\ bulk.pc # "fetch") ~> (bulk.pc = "fetch")
    /\ (bulk.pc = "fetch") ~> (bulk.pc = "sleep")
    /\ (PollRuns /\ ~IterationDecided) ~> IterationDecided
    /\ IterationDecided ~> (poll.pc = "check")

\* C16 as stated: the index loop too attempts a refresh (sends its REST
\* request) again and again
C16_AsStated ==
    /\ (BulkRuns /\ bulk.pc # "fetch") ~> (bulk.pc = "fetch")
    /\ (PollRuns /\ poll.pc # "wait") ~> (poll.pc = "wait")

\* the index loop sleeps after a REST request that brought nothing (it raised or
\* was refused), the snapshot stale, the last stamp written by a push update
C16_Witness ==
    /\ poll.pc = "sleep3"
    /\ poll.timer = SleepPoll
    /\ rest_fetches = 1
    /\ written_by.stamp = "push"
    /\ wr["rest"].pc = "idle"
    /\ indices_age = StaleAge

\* ------------------------------------------------------------------------
\* C17: without the socket library ensure_indices_refresh never starts the
\* push listener, it does start the REST poll loop, and the source tag is
\* EMPTY or REST in every state
\* ------------------------------------------------------------------------
RestTags == {"EMPTY", "REST"}

NoListener ==
    /\ spawned.ws = 0
    /\ ws.pc = "off"
    /\ ~_indices_ws_thread_started
    /\ push_msgs = 0
    /\ wr["push"].pc = "idle"
    /\ _indices_source \in RestTags

\* C17: no listener and no push tag without the library, and the poll loop
\* running once the guard has returned
C17_NoSocketLibrary ==
    /\ [](~socketio => NoListener)
    /\ [][\A c \in Callers :
             (~socketio /\ ReturnsFromIndices(c)) =>
                 spawned'.indices = 1 /\ poll'.pc # "off"]_vars

\* without the library: the guard has returned, the poll loop has fetched and
\* its update has tagged the snapshot REST
C17_Witness ==
    /\ ~socketio
    /\ _indices_thread_started
    /\ caller[1].pc = "idle"
    /\ poll.pc = "sleep3"
    /\ written_by.source = "rest"
    /\ _indices_source = "REST"
    /\ spawned = [refresh |-> 0, indices |-> 1, ws |-> 0]

\* ------------------------------------------------------------------------
\* C18: append and truncate are one step per symbol: when a REST update and a
\* push update that both carry VNINDEX have completed, in whatever
\* interleaving, the buffer of VNINDEX holds both appended prices, also when
\* it held 30 entries before
\* ------------------------------------------------------------------------
BothCompleted ==
    /\ rest_fetches = 1
    /\ push_msgs = 1
    /\ poll.pc \notin {"wait", "update"}
    /\ wr["rest"].pc = "idle"
    /\ wr["push"].pc = "idle"

Buffer(sym) == heap[_indices_history[sym]]
Holds(q, v) == \E i \in 1..Len(q) : q[i] = v

\* C18: after both updates the buffer holds the REST price and the push price
C18_NoLostAppend ==
    BothCompleted => Holds(Buffer("VNINDEX"), 1200) /\ Holds(Buffer("VNINDEX"), 1205)

\* both updates are over and the buffer, 30 entries long, has the REST price
\* but not the push price
C18_Lost ==
    /\ BothCompleted
    /\ Len(Buffer("VNINDEX")) = _HISTORY_SIZE
    /\ Holds(Buffer("VNINDEX"), 1200)
    /\ ~Holds(Buffer("VNINDEX"), 1205)

\* ------------------------------------------------------------------------
\* C19: the result of a REST fetch is not written over a snapshot that a push
\* update applied while that fetch was in flight (after the freshness test of
\* the iteration had passed)
\* ------------------------------------------------------------------------
\* the snapshot and its stamp come from a push update and the stamp is younger
\* than 2.5 s: it was written after the running iteration tested the freshness
FreshPushSnapshot ==
    /\ written_by.cache = "push"
    /\ written_by.stamp = "push"
    /\ 2 * indices_age < 5

\* a push update has been applied, start to end, while the REST request of the
\* poll loop is out
PushAppliedInFlight ==
    /\ poll.pc = "wait"
    /\ wr["push"].pc = "idle"
    /\ FreshPushSnapshot

\* the poll loop calls _update_indices_cache with what the request brought (the
\* first statement of the call replaces the snapshot)
RestResultApplied == poll'.pc = "update" /\ wr'["rest"].pc = "u_cache"

\* C19: a REST result that comes back to a push snapshot applied meanwhile is
\* not written over it
C19_NoStaleOverwrite == [][PushAppliedInFlight => ~RestResultApplied]_vars

\* the poll loop has just replaced the snapshot of a push update that was
\* completed less than a second ago: stamp and tag are still the push's
C19_Overwritten ==
    /\ wr["rest"].pc = "u_stamp"
    /\ wr["push"].pc = "idle"
    /\ written_by = [cache |-> "rest", stamp |-> "push", source |-> "push"]
    /\ _indices_source = "SOCKET_IO"
    /\ indices_age = 0
    /\ poll.pc = "update"

\* ------------------------------------------------------------------------
\* C20: a price reader that arrives during the index bootstrap does not wait
\* for it: a call of ensure_background_refresh made while another thread is in
\* the bootstrap REST fetch goes through without waiting for the fetch to end
\* ------------------------------------------------------------------------
\* thread d is in the blocking first fetch, inside `with cls._lock`
BootstrapFetching(d) == caller[d].pc = "ei_wait" /\ _lock = d

\* thread c stands at `with cls._lock` of ensure_background_refresh and the
\* lock is taken
WaitsForLock(c) == At(c, "eb_lock") /\ _lock \notin {0, c}

\* C20: no price reader waits while the bootstrap fetch is out
C20_PriceReaderNoWait ==
    \A c \in Callers : \A d \in Callers : BootstrapFetching(d) => ~WaitsForLock(c)

\* the first caller is in the bootstrap fetch; the second, the first price
\* reader of the process, waits for the lock the first one holds
C20_Blocked ==
    /\ BootstrapFetching(1)
    /\ WaitsForLock(2)
    /\ caller[2].op = "ensure_background_refresh"
    /\ ~_refresh_thread_started
    /\ ~_indices_thread_started

\* C21 (SpecUpdate). Every non-empty index update replaces the whole snapshot:
\* once _update_indices_cache(items, tag) has returned, with no other update
\* under way, the snapshot get_cached_indices returns is exactly items: the
\* records of index symbols that items does not carry are gone, and no field of
\* an earlier record is found in a new one.
LastCallOver ==
    /\ last_call.n > 0
    /\ last_call.items # <<>>
    /\ wr["direct"].pc = "idle"
C21_WholeSnapshotReplaced ==
    LastCallOver => _indices_cache = last_call.items

\* An update with VNINDEX and HNXINDEX has been followed by one that carries
\* VNINDEX alone: HNXINDEX has a history buffer and no record in the snapshot
C21_Witness ==
    /\ LastCallOver
    /\ "HNXINDEX" \in DOMAIN _indices_history
    /\ last_call.items = _extract_index_items_from_payload(PayA)
    /\ Len(_indices_cache) = 1
    /\ DOMAIN _indices_cache[1].v = NormalizedKeys

\* C22 (SpecFeed). History buffers hold parsed floats only and a non-numeric
\* update is skipped: when a REST or push payload carries an allow-listed index
\* record whose price is missing or is no number, processing it (extract,
\* normalize, update) appends no value to the history buffer of that symbol.
\* TLC refutes it: _normalize_index_item has replaced the missing or unparseable
\* price by 0.0 before _update_indices_cache looks at it, so 0.0 is appended.
RawPrice(rec) == FirstNotNone(rec.v, <<"price", "Price", "c", "Index">>)
NoUsablePrice(rec) == RawPrice(rec) = None \/ ~ParseFloat(RawPrice(rec)).ok
PricelessSymbols == {"VN30", "HNX30"}
PricelessRecords ==
    /\ NoUsablePrice(PayNoPrice.v[1])
    /\ NoUsablePrice(PayTextPrice.v["data"].v[1])
    /\ RawPrice(PayNoPrice.v[1]) = None
    /\ RawPrice(PayTextPrice.v["data"].v[1]) = Str("N/A")
C22_NonNumericSkipped ==
    \A k \in PricelessSymbols :
       k \in DOMAIN _indices_history => heap[_indices_history[k]] = <<>>

\* The REST answer without a price for VN30 and the push with the close "N/A"
\* for hnx30 have both been processed: each buffer holds the one value 0.0
C22_Appended ==
    /\ PricelessRecords
    /\ \A w \in Writers : wr[w].pc = "idle"
    /\ DOMAIN _indices_history = PricelessSymbols
    /\ heap[_indices_history["VN30"]] = <<0>>
    /\ heap[_indices_history["HNX30"]] = <<0>>
    /\ written_by.cache = "push"
    /\ Get(_indices_cache[1].v, "price") = Num(0)

\* C23 (Spec). Every reconnection of the push listener is preceded by the fixed
\* short wait: whether the connection ended with an exception or sio.wait()
\* returned normally (clean disconnect, server close), the listener sleeps before
\* its next connection attempt; only the first attempt of the thread needs none.
\* TLC refutes it: time.sleep(2) stands in the except clause alone, so after a
\* normal return of sio.wait() the loop reconnects at once.
NextAttemptBegins == ws'.pc = "start" /\ ws.pc # "start"
C23_WaitBeforeReconnect ==
    [][NextAttemptBegins => ws.pc \in {"entry", "except"}]_vars

\* A connection that had delivered the push with VNINDEX at 1205 has ended with
\* sio.wait() returning: the listener is in the finally clause, no sleep ahead
C23_NoWait ==
    /\ ws.pc = "closed"
    /\ written_by.cache = "push"
    /\ wr["push"].pc = "idle"
    /\ _indices_source = "SOCKET_IO"

\* C24 (SpecListen). With the socket library present the push listener has no
\* terminal state: the thread never ends, and after a failed connection attempt,
\* an exception in the loop body or a server close it always comes back to the
\* top of the loop and makes a further connection attempt.
ListenerDown == ws.pc \in {"closed", "except"}
AttemptMade == ws.pc \in {"wait", "except"}
C24_NoTerminalState ==
    /\ [](ws.pc \notin {"off", "exit", "dead"})
    /\ ListenerDown ~> (ws.pc = "start")
    /\ (ws.pc = "start") ~> AttemptMade

\* The connection has failed while the update of a pushed message is still
\* running in the handler: the listener sleeps before it tries again
C24_Witness ==
    /\ ws.pc = "except"
    /\ wr["push"].pc = "h_append"
    /\ Len(heap[_indices_history["VNINDEX"]]) = _HISTORY_SIZE

\* C25 (Spec). A malformed push message is swallowed per message: a push payload
\* that yields no allow-listed item leaves snapshot, timestamp, source tag and
\* history as they are and the listener connected; a well-formed message that
\* comes next enters _update_indices_cache with its items and the tag SOCKET_IO,
\* and that update writes SOCKET_IO as the source tag.
MessageDelivered == push_msgs' = push_msgs + 1
MessageDropped == MessageDelivered /\ wr'["push"].pc = "idle"
MessageTaken == MessageDelivered /\ wr'["push"].pc # "idle"
PushTagWritten == wr["push"].pc = "u_source" /\ wr'["push"].pc # "u_source"
C25_BadPushSwallowed ==
    [][/\ MessageDropped =>
            /\ UNCHANGED <<index_vars, wr>>
            /\ ws' = ws
            /\ ws.pc = "wait"
       /\ MessageTaken =>
            /\ wr'["push"].pc = "u_cache"
            /\ wr'["push"].source = "SOCKET_IO"
            /\ wr'["push"].items # <<>>
            /\ ws' = ws
       /\ PushTagWritten => _indices_source' = "SOCKET_IO"]_vars

\* The second message of the connection is being applied, and no push has put
\* its 1205 into the buffer before: the first message was one that yields no
\* item (the FOOBAR record or the text "ping"), and the listener is connected
C25_Witness ==
    /\ push_msgs = 2
    /\ ws.pc = "wait"
    /\ wr["push"].pc = "h_append"
    /\ \A i \in 1..Len(heap[wr["push"].history]) : heap[wr["push"].history][i] # 1205
    /\ _indices_cache = _extract_index_items_from_payload(PayB)
    /\ _indices_source = "SOCKET_IO"
    /\ written_by = [cache |-> "push", stamp |-> "push", source |-> "push"]

\* C26 (SpecPrice). A reader of the Price Cache concurrent with update_bulk_cache
\* sees the whole previous mapping or the whole new merged mapping, never one
\* with only some of the groups of the cycle under way: while the groups are
\* fetched the cache is the mapping the cycle found, the cache changes in one
\* step only, to the merge of all three results, and the record a lookup takes
\* is the one such a mapping holds.
Observable ==
    IF bulk.pc = "fetch" THEN {bulk.before}
    ELSE {bulk.before, merged(bulk.results, Len(Groups))}
LookupHits(c) == caller[c].pc = "pd_lookup" /\ caller'[c].pc = "pd_done"
C26_ReaderSeesWholeMapping ==
    [][/\ _price_cache' \in Observable'
       /\ _price_cache' # _price_cache =>
             /\ bulk.pc = "fetch" /\ bulk'.pc = "sleep"
             /\ \A g \in GroupNames : bulk.results[g].done
             /\ _price_cache' = merged(bulk.results, Len(Groups))
       /\ \A c \in Callers :
             LookupHits(c) =>
                \E m \in Observable :
                   /\ caller[c].sym \in DOMAIN m
                   /\ caller'[c].item = Dict(m[caller[c].sym])]_vars

\* A cycle is under way: HOSE has answered with VNM at 81.0 and FPT, the other
\* groups have not; the cache is still the previous mapping with VNM at 80.0
\* and without FPT, and a request thread is at the lookup of VNM
C26_Witness ==
    /\ bulk.pc = "fetch"
    /\ bulk.results["HOSE"].done
    /\ ~bulk.results["HNX"].done
    /\ "VNM" \in DOMAIN bulk.results["HOSE"].map
    /\ bulk.results["HOSE"].map["VNM"] = VNM810.v
    /\ _price_cache = bulk.before
    /\ DOMAIN _price_cache = {"VNM"}
    /\ _price_cache["VNM"] = VNM800.v
    /\ caller[1].pc = "pd_lookup"
    /\ caller[1].sym = "VNM"

\* C27 (SpecFlight). At most one fetch in flight per background channel: there
\* is one price loop thread and so at most one update_bulk_cache cycle under way,
\* with at most max_workers group fetches running in it; and at most one REST
\* index fetch is in flight, be it the bootstrap fetch of a request thread or the
\* fetch of the one index poll loop, which is started after the bootstrap only.
max_workers == 3
BulkCyclesUnderWay == IF bulk.pc = "fetch" THEN spawned.refresh ELSE 0
GroupFetchesRunning ==
    IF bulk.pc = "fetch"
    THEN Cardinality({g \in GroupNames : ~bulk.results[g].done}) ELSE 0
BootFetchesInFlight == Cardinality({c \in Callers : caller[c].pc = "ei_wait"})
PollFetchesInFlight == IF poll.pc = "wait" THEN spawned.indices ELSE 0
BootstrapOver == \A c \in Callers : caller[c].pc \notin {"ei_fetch", "ei_wait", "ei_update"}
C27_OneFetchInFlight ==
    /\ BulkCyclesUnderWay <= 1
    /\ GroupFetchesRunning <= max_workers
    /\ BootFetchesInFlight + PollFetchesInFlight <= 1
    /\ poll.pc # "off" => BootstrapOver

\* A bulk cycle is under way with all three group fetches running, the index
\* poll loop has its fetch in flight, and a request thread is inside the index
\* guard (it holds the lock and has found the flag set)
C27_Witness ==
    /\ BulkCyclesUnderWay = 1
    /\ GroupFetchesRunning = max_workers
    /\ PollFetchesInFlight = 1
    /\ \E c \in Callers : caller[c].pc = "ei_release" /\ _lock = c
    /\ bulk_cycles = MaxBulkCycles
    /\ rest_fetches = MaxRestFetches

\* C28 (SpecWarm). With the push listener silent the REST poll loop alone keeps
\* the Index Cache warm: as long as the REST fetches succeed, the loop never
\* skips its fetch on account of a write of its own (the skip is taken only
\* while the stamp is the bootstrap's), a skip is always followed by a fetch
\* later on, and again and again a REST result becomes the snapshot.
SkipsFetch == poll.pc = "sleep1"
RestResultStored == wr["rest"].pc = "u_stamp"
C28_RestKeepsWarm ==
    /\ [](SkipsFetch => written_by.stamp # "rest")
    /\ SkipsFetch ~> (poll.pc = "wait")
    /\ []<>RestResultStored

\* The loop has stored 29 REST results since the bootstrap (the buffer of
\* VNINDEX is full) and has its next request in flight, the snapshot stale again
C28_Witness ==
    /\ poll.pc = "wait"
    /\ written_by = [cache |-> "rest", stamp |-> "rest", source |-> "rest"]
    /\ Len(heap[_indices_history["VNINDEX"]]) = _HISTORY_SIZE
    /\ indices_age = StaleAge
    /\ ws.pc = "entry"

\* C29 (SpecGuard). No deadlock on the lifecycle guard: with every HTTP request
\* ending, every call of ensure_indices_refresh (through get_cached_indices) and
\* of ensure_background_refresh returns, whatever the interleaving of the
\* request threads in the two guards, and the shared lock, once taken, is
\* released, also when the bootstrap fetch has raised.
C29_GuardReturns ==
    /\ \A c \in Callers : (caller[c].pc # "idle") ~> (caller[c].pc = "idle")
    /\ (_lock # 0) ~> (_lock = 0)

\* The bootstrap fetch has raised: the thread that made it still holds the
\* lock, while another thread waits for the lock in ensure_background_refresh
C29_Witness ==
    /\ boot_yield = "nothing"
    /\ \E c \in Callers :
          /\ _lock = c
          /\ caller[c].pc = "ei_ws"
          /\ \E d \in Callers \ {c} : caller[d].pc = "eb_lock"

\* C30 (SpecExtract). De-duplication: whatever the nesting of the payload,
\* _extract_index_items_from_payload returns at most one record per index
\* symbol, a record for every index symbol that occurs, and for a symbol that
\* occurs more than once the normalized record of its last occurrence in
\* traversal order (a dict before what its data / result keys hold, data before
\* result, the elements of a list in order).
Occurrences ==
    SelectSeq([k \in 1..Len(last_call.occ) |-> _normalize_index_item(last_call.occ[k])],
              LAMBDA x : x # None)
LastOccurrence(sym) ==
    LET of == SelectSeq(Occurrences, LAMBDA x : symbol_key(x) = sym)
    IN of[Len(of)]
C30_LastOccurrenceKept ==
    last_call.n > 0 =>
        LET items == last_call.items
        IN /\ \A i, j \in 1..Len(items) :
                 symbol_key(items[i]) = symbol_key(items[j]) => i = j
           /\ {symbol_key(items[i]) : i \in 1..Len(items)}
                 = {symbol_key(Occurrences[k]) : k \in 1..Len(Occurrences)}
           /\ \A i \in 1..Len(items) : items[i] = LastOccurrence(symbol_key(items[i]))

\* A record for VNINDEX at 1 carries under data a record for vnindex at 3 and
\* under result one for VNINDEX at 2: the one record returned is the last, at 2
C30_Witness ==
    /\ last_call.n > 0
    /\ last_call.payload.t = "dict"
    /\ Len(Occurrences) = 3
    /\ \A k \in 1..3 : symbol_key(Occurrences[k]) = "VNINDEX"
    /\ Get(Occurrences[1].v, "price") = Num(1)
    /\ "s" \in DOMAIN Occurrences[2].v
    /\ Len(last_call.items) = 1
    /\ Get(last_call.items[1].v, "price") = Num(2)
    /\ last_call.items[1] = Occurrences[3]

====
